---- MODULE Spec2Model ----
(***************************************************************************)
(* Model of the Echo/Canvas reconciliation engine                          *)
(* (src/processors/echo_adapter.py).                                       *)
(*                                                                         *)
(* A Python str is modelled as a sequence of characters; a character is a  *)
(* one-character TLA+ string, except the two code points the model needs   *)
(* outside ASCII, which are named: "U0130" (LATIN CAPITAL LETTER I WITH    *)
(* DOT ABOVE) and "U0307" (COMBINING DOT ABOVE).                           *)
(***************************************************************************)
EXTENDS Integers, Sequences, FiniteSets, TLC

VARIABLES
    nt_in,      \* _norm_text: the title given to the first call
    nt_out1,    \* _norm_text: the value the first call returned
    nt_out2,    \* _norm_text: the value returned when called on nt_out1
    nt_pc,      \* "start" | "once" | "twice" | "idle"
    ts_parts,   \* _to_seconds: the colon-free pieces the text cell is made of
    ts_in,      \* _to_seconds: the cell given
    ts_out,     \* _to_seconds: the value returned
    ts_pc,      \* "start" | "done" | "idle"
    fc_columns, \* _find_col: df.columns
    fc_want,    \* _find_col: the candidate list
    fc_required,\* _find_col: the required flag
    fc_out,     \* _find_col: the outcome (a column, None, or KeyError raised)
    fc_pc,      \* "start" | "done" | "idle"
    gm_ekeys,   \* _greedy_match: ekeys
    gm_ckeys,   \* _greedy_match: ckeys
    gm_knobs,   \* _greedy_match: <<threshold, fallback_min, top_k>>
    gm_out,     \* _greedy_match: the list returned
    gm_pc,      \* "start" | "done" | "idle"
    df,              \* build_echo_tables: the table read from the Echo CSV
    canvas_order_df, \* build_echo_tables: the curriculum list
    found_cols,      \* what the five column lookups returned (lines 158-162)
    parsed,          \* df with its time columns in seconds (line 168)
    true_view_frac,  \* df["__true_view_frac"] (line 171)
    echo_summary,    \* the per-media table
    m1_exact,        \* m1 as the exact merge leaves it (line 220)
    fuzzy,           \* unmatched_idx, ckeys, ekeys and pairs of the fuzzy pass
    m1_filled,       \* m1 when the fuzzy pass has filled it (line 249)
    module_sorted,   \* the per-module rows once sorted (line 266)
    module_table,    \* the per-module table
    student_table,   \* the per-student table
    bt_pc,           \* "start" | "done" | "raised" | "idle"
    ga_pages,        \* _get_all: the pages the server holds, page k at PageUrl(k)
    ga_params,       \* _get_all: the params argument
    ga_next_url,     \* _get_all: next_url
    ga_next_params,  \* _get_all: next_params
    ga_out,          \* _get_all: out
    ga_log,          \* _get_all: the requests sent, each <<url, params>>
    ga_ret,          \* _get_all: the value returned, <<>> until then
    ga_pc,           \* "loop" | "returned" | "raised" | "idle"
    wz_token,        \* app.py: TOKEN, "" when the secret is missing
    wz_step,         \* app.py: st.session_state.step, 0 before the first run
    wz_state,        \* app.py: st.session_state without step, key |-> value
    wz_input,        \* app.py: what the user did to start the last script run
    wz_error,        \* app.py: what st.error showed in the last script run
    wz_pc,           \* "run" | "idle"
    so_df,           \* sort_by_canvas_order: df
    so_module_col,   \* sort_by_canvas_order: module_col
    so_canvas,       \* sort_by_canvas_order: canvas_df
    so_out,          \* sort_by_canvas_order: the table returned
    so_pc            \* "start" | "done" | "idle"

nt_vars == <<nt_in, nt_out1, nt_out2, nt_pc>>
ts_vars == <<ts_parts, ts_in, ts_out, ts_pc>>
fc_vars == <<fc_columns, fc_want, fc_required, fc_out, fc_pc>>
gm_vars == <<gm_ekeys, gm_ckeys, gm_knobs, gm_out, gm_pc>>
bt_vars == <<df, canvas_order_df, found_cols, parsed, true_view_frac, echo_summary, m1_exact, fuzzy, m1_filled, module_sorted,
             module_table, student_table, bt_pc>>
ga_vars == <<ga_pages, ga_params, ga_next_url, ga_next_params, ga_out, ga_log, ga_ret, ga_pc>>
wz_vars == <<wz_token, wz_step, wz_state, wz_input, wz_error, wz_pc>>
so_vars == <<so_df, so_module_col, so_canvas, so_out, so_pc>>
app_vars == <<ga_vars, wz_vars, so_vars>>
vars == <<nt_vars, ts_vars, fc_vars, gm_vars, bt_vars, app_vars>>

\* the value of a variable that holds nothing yet (Python's None)
None == "None"

(***************************************************************************)
(* Characters and strings                                                  *)
(***************************************************************************)
Chars(str) == [i \in 1..Len(str) |-> SubSeq(str, i, i)]

UpperSeq == Chars("ABCDEFGHIJKLMNOPQRSTUVWXYZ")
LowerSeq == Chars("abcdefghijklmnopqrstuvwxyz")
DigitSeq == Chars("0123456789")

Range(f) == {f[i] : i \in DOMAIN f}

\* str.isspace / the regex class \s
IsSpace(ch) == ch \in {" ", "\t"}

\* the regex class \d
IsDigit(ch) == ch \in Range(DigitSeq)

\* str.isalnum: letters and digits; U+0130 is a letter, U+0307 is a mark
IsAlnum(ch) == ch \in Range(UpperSeq) \cup Range(LowerSeq) \cup Range(DigitSeq) \cup {"U0130"}

\* str.lower of one character: a string, since U+0130 lower-cases to the two
\* code points "i" U+0307
Lower(ch) ==
    IF ch \in Range(UpperSeq)
    THEN <<LowerSeq[CHOOSE i \in 1..26 : UpperSeq[i] = ch]>>
    ELSE IF ch = "U0130" THEN <<"i", "U0307">>
    ELSE <<ch>>

\* the case folding of re.I on one character
FoldCase(ch) ==
    IF ch \in Range(UpperSeq)
    THEN LowerSeq[CHOOSE i \in 1..26 : UpperSeq[i] = ch]
    ELSE IF ch = "U0130" THEN "i"
    ELSE ch

\* index of the last character that is not whitespace, 0 if there is none
LastNonSpace(s) ==
    IF \E i \in 1..Len(s) : ~IsSpace(s[i])
    THEN CHOOSE i \in 1..Len(s) :
            ~IsSpace(s[i]) /\ \A j \in (i+1)..Len(s) : IsSpace(s[j])
    ELSE 0

\* index of the first character that is not whitespace, Len(s)+1 if none
FirstNonSpace(s) ==
    IF \E i \in 1..Len(s) : ~IsSpace(s[i])
    THEN CHOOSE i \in 1..Len(s) :
            ~IsSpace(s[i]) /\ \A j \in 1..(i-1) : IsSpace(s[j])
    ELSE Len(s) + 1

\* str.strip()
Strip(s) == SubSeq(s, FirstNonSpace(s), LastNonSpace(s))

\* start of the maximal run of whitespace that ends right before index p
\* (p itself when s[p-1] is not whitespace): where a leading \s* begins
WsStart(s, p) ==
    CHOOSE q \in 1..p :
        /\ \A j \in q..(p-1) : IsSpace(s[j])
        /\ (q = 1 \/ ~IsSpace(s[q-1]))

\* str.split(sep) for a one-character separator
RECURSIVE SplitOn(_, _)
SplitOn(s, sep) ==
    IF \E i \in 1..Len(s) : s[i] = sep
    THEN LET i == CHOOSE k \in 1..Len(s) : s[k] = sep /\ \A j \in 1..(k-1) : s[j] # sep
         IN  <<SubSeq(s, 1, i-1)>> \o SplitOn(SubSeq(s, i+1, Len(s)), sep)
    ELSE <<s>>

\* str.split(): the maximal runs of non-whitespace characters
RECURSIVE SplitWs(_)
SplitWs(s) ==
    LET a == FirstNonSpace(s)
    IN  IF a > Len(s) THEN <<>>
        ELSE LET rest == SubSeq(s, a, Len(s))
                 e == IF \E i \in 1..Len(rest) : IsSpace(rest[i])
                      THEN (CHOOSE i \in 1..Len(rest) :
                                IsSpace(rest[i]) /\ \A j \in 1..(i-1) : ~IsSpace(rest[j])) - 1
                      ELSE Len(rest)
             IN  <<SubSeq(rest, 1, e)>> \o SplitWs(SubSeq(rest, e+1, Len(rest)))

\* sep.join(parts)
RECURSIVE Join(_, _)
Join(parts, sep) ==
    IF parts = <<>> THEN <<>>
    ELSE IF Len(parts) = 1 THEN parts[1]
    ELSE parts[1] \o sep \o Join(Tail(parts), sep)

RECURSIVE Concat(_)
Concat(parts) == IF parts = <<>> THEN <<>> ELSE parts[1] \o Concat(Tail(parts))

(***************************************************************************)
(* Cleaning patterns: each is anchored at the end of the string ($), so    *)
(* re.sub("", s) removes at most one match, the tail of s.                 *)
(***************************************************************************)
\* \s*\((?:\d{1,2}:)?\d{1,2}:\d{2}\)\s*$  : s with the match removed
DURATION_TAIL_sub(s) ==
    LET e == LastNonSpace(s)
        opens == {i \in 1..e : s[i] = "("}
    IN  IF e = 0 \/ s[e] # ")" \/ opens = {} THEN s
        ELSE LET p == CHOOSE i \in opens : \A j \in opens : j <= i
                 parts == SplitOn(SubSeq(s, p+1, e-1), ":")
                 n == Len(parts)
                 digits(k) == \A i \in 1..Len(parts[k]) : IsDigit(parts[k][i])
             IN  IF /\ n \in {2, 3}
                    /\ \A k \in 1..n : digits(k)
                    /\ Len(parts[n]) = 2
                    /\ \A k \in 1..(n-1) : Len(parts[k]) \in {1, 2}
                 THEN SubSeq(s, 1, WsStart(s, p) - 1)
                 ELSE s

\* \s*-\s*\d{4,}\s*$  : s with the match removed
NUM_ID_TAIL_sub(s) ==
    LET e == LastNonSpace(s)
    IN  IF e = 0 \/ ~IsDigit(s[e]) THEN s
        ELSE LET d == CHOOSE i \in 1..e :
                        /\ \A j \in i..e : IsDigit(s[j])
                        /\ (i = 1 \/ ~IsDigit(s[i-1]))
                 q == WsStart(s, d) - 1      \* where the "-" has to be
             IN  IF e - d + 1 >= 4 /\ q >= 1 /\ s[q] = "-"
                 THEN SubSeq(s, 1, WsStart(s, q) - 1)
                 ELSE s

\* \s*\(read only\)\s*$ with re.I  : s with the match removed
READ_ONLY_sub(s) ==
    LET e == LastNonSpace(s)
        pat == Chars("(read only)")
    IN  IF e >= Len(pat)
           /\ [i \in 1..Len(pat) |-> FoldCase(s[e - Len(pat) + i])] = pat
        THEN SubSeq(s, 1, WsStart(s, e - Len(pat) + 1) - 1)
        ELSE s

\* _strip_noise_tail: read-only marker, then duration, then numeric id
_strip_noise_tail(title) ==
    IF title = <<>> THEN <<>>
    ELSE Strip(NUM_ID_TAIL_sub(DURATION_TAIL_sub(READ_ONLY_sub(title))))

\* _norm_text: lower-case, de-punctuate, collapse spaces
_norm_text(text) ==
    LET s == _strip_noise_tail(text)
        mapped == Concat([i \in 1..Len(s) |->
                     IF IsAlnum(s[i]) \/ IsSpace(s[i]) THEN Lower(s[i]) ELSE <<" ">>])
    IN  Join(SplitWs(mapped), <<" ">>)

(***************************************************************************)
(* SpecNorm: _norm_text applied to a title, then to its own result         *)
(***************************************************************************)
MaxSegs == 3

NormSegments ==
    { Chars("T"), Chars("b2"), Chars(" "), Chars("(12:34)"), Chars("(1:02:03)"),
      Chars("(Read Only)"), Chars("- 1234"), Chars("-"), Chars("7"), <<"U0130">> }

NormTitles ==
    { Concat(segs) : segs \in UNION { [1..n -> NormSegments] : n \in 0..MaxSegs } }

NormIdle ==
    /\ nt_in = None
    /\ nt_out1 = None
    /\ nt_out2 = None
    /\ nt_pc = "idle"

NormStart ==
    /\ nt_in \in NormTitles
    /\ nt_out1 = None
    /\ nt_out2 = None
    /\ nt_pc = "start"

CallNormText ==
    /\ nt_pc = "start"
    /\ nt_out1' = _norm_text(nt_in)
    /\ nt_pc' = "once"
    /\ UNCHANGED <<nt_in, nt_out2, ts_vars, fc_vars, gm_vars, bt_vars, app_vars>>

CallNormTextAgain ==
    /\ nt_pc = "once"
    /\ nt_out2' = _norm_text(nt_out1)
    /\ nt_pc' = "twice"
    /\ UNCHANGED <<nt_in, nt_out1, ts_vars, fc_vars, gm_vars, bt_vars, app_vars>>

NextNorm == CallNormText \/ CallNormTextAgain

(***************************************************************************)
(* Cells and floats.  A cell of a table is missing (NaN/None), a number,   *)
(* or text.  Seconds are whole numbers: the text cells of the model are    *)
(* written with digits, ":", " ", "-", "+" and letters, on which Python's  *)
(* float() accepts exactly an optionally signed run of digits, with        *)
(* whitespace around it.                                                   *)
(***************************************************************************)
NaN == [k |-> "nan", v |-> 0]
Num(n) == [k |-> "num", v |-> n]
Text(s) == [k |-> "str", v |-> s]

\* pd.isna
IsNa(x) == x.k = "nan"

RECURSIVE DigitsValue(_)
DigitsValue(s) ==
    IF s = <<>> THEN 0
    ELSE 10 * DigitsValue(SubSeq(s, 1, Len(s) - 1))
         + (CHOOSE d \in 0..9 : DigitSeq[d + 1] = s[Len(s)])

\* float(s) succeeds
IsFloat(s) ==
    LET t == Strip(s)
        u == IF t # <<>> /\ t[1] \in {"-", "+"} THEN Tail(t) ELSE t
    IN  u # <<>> /\ \A i \in 1..Len(u) : IsDigit(u[i])

\* float(s), for s with IsFloat(s)
FloatOf(s) ==
    LET t == Strip(s)
    IN  IF t[1] = "-" THEN 0 - DigitsValue(Tail(t))
        ELSE IF t[1] = "+" THEN DigitsValue(Tail(t))
        ELSE DigitsValue(t)

\* _to_seconds with the two-part form read as hours:minutes
_to_seconds_HoursMinutes(x) ==
    IF IsNa(x) THEN NaN
    ELSE IF x.k = "num" THEN Num(x.v)
    ELSE LET s == Strip(x.v)
         IN  IF s = <<>> THEN NaN
             ELSE IF IsFloat(s) THEN Num(FloatOf(s))
             ELSE LET parts == SplitOn(s, ":")
                  IN  IF \E i \in 1..Len(parts) : ~IsFloat(parts[i]) THEN NaN
                      ELSE IF Len(parts) = 3
                           THEN Num(FloatOf(parts[1]) * 3600 + FloatOf(parts[2]) * 60
                                    + FloatOf(parts[3]))
                      ELSE IF Len(parts) = 2
                           THEN Num(FloatOf(parts[1]) * 3600 + FloatOf(parts[2]) * 60)
                      ELSE NaN

\* _to_seconds: 01:23:45, 12:34 or numeric seconds to seconds
_to_seconds(x) ==
    IF IsNa(x) THEN NaN
    ELSE IF x.k = "num" THEN Num(x.v)
    ELSE LET s == Strip(x.v)
         IN  IF s = <<>> THEN NaN
             ELSE IF IsFloat(s) THEN Num(FloatOf(s))
             ELSE LET parts == SplitOn(s, ":")
                  IN  IF \E i \in 1..Len(parts) : ~IsFloat(parts[i]) THEN NaN
                      ELSE IF Len(parts) = 3
                           THEN Num(FloatOf(parts[1]) * 3600 + FloatOf(parts[2]) * 60
                                    + FloatOf(parts[3]))
                      ELSE IF Len(parts) = 2
                           THEN Num(FloatOf(parts[1]) * 60 + FloatOf(parts[2]))
                      ELSE NaN

(***************************************************************************)
(* SpecSeconds: _to_seconds applied to one cell                            *)
(***************************************************************************)
MaxParts == 4

\* colon-free pieces of text, each with what Python's float() makes of it:
\* <<text, TRUE, value>>, or <<text, FALSE, 0>> when float(text) raises
SecondsPieces ==
    { <<"01", TRUE, 1>>, <<"02", TRUE, 2>>, <<"03", TRUE, 3>>, <<"12", TRUE, 12>>,
      <<"34", TRUE, 34>>, <<"45", TRUE, 45>>, <<" 7 ", TRUE, 7>>, <<"-5", TRUE, -5>>,
      <<"", FALSE, 0>>, <<"a", FALSE, 0>> }

SecondsNumbers == {-5, 0, 45, 600}

SecondsIdle ==
    /\ ts_parts = None
    /\ ts_in = None
    /\ ts_out = None
    /\ ts_pc = "idle"

SecondsStart ==
    /\ \/ /\ ts_parts \in UNION { [1..n -> SecondsPieces] : n \in 1..MaxParts }
          /\ ts_in = Text(Join([i \in 1..Len(ts_parts) |-> Chars(ts_parts[i][1])], <<":">>))
       \/ /\ ts_parts = <<>>
          /\ ts_in \in {NaN} \cup {Num(n) : n \in SecondsNumbers}
    /\ ts_out = None
    /\ ts_pc = "start"

CallToSeconds ==
    /\ ts_pc = "start"
    /\ ts_out' = _to_seconds(ts_in)
    /\ ts_pc' = "done"
    /\ UNCHANGED <<ts_parts, ts_in, nt_vars, fc_vars, gm_vars, bt_vars, app_vars>>

NextSeconds == CallToSeconds

(***************************************************************************)
(* Column resolver                                                         *)
(***************************************************************************)
\* CANDIDATES
CANDIDATES ==
    [ media    |-> <<Chars("media name"), Chars("media title"), Chars("video title"),
                     Chars("title"), Chars("name")>>,
      duration |-> <<Chars("duration"), Chars("video duration"), Chars("media duration"),
                     Chars("length")>>,
      viewtime |-> <<Chars("total view time"), Chars("total viewtime"),
                     Chars("total watch time"), Chars("view time")>>,
      avgview  |-> <<Chars("average view time"), Chars("avg view time"),
                     Chars("avg watch time"), Chars("average watch time")>>,
      user     |-> <<Chars("user email"), Chars("user name"), Chars("email"), Chars("user"),
                     Chars("viewer"), Chars("username")>> ]

\* str.lower
LowerStr(s) == Concat([i \in 1..Len(s) |-> Lower(s[i])])

\* w in k
IsSubstr(w, k) == \E i \in 1..(Len(k) - Len(w) + 1) : SubSeq(k, i, i + Len(w) - 1) = w

\* the keys of {c.lower(): c for c in columns}, in the dict's order: each
\* lower-cased name where it first occurs
RECURSIVE LowKeys(_)
LowKeys(columns) ==
    IF columns = <<>> THEN <<>>
    ELSE LET init == SubSeq(columns, 1, Len(columns) - 1)
             k == LowerStr(columns[Len(columns)])
         IN  IF \E i \in 1..Len(init) : LowerStr(init[i]) = k
             THEN LowKeys(init)
             ELSE Append(LowKeys(init), k)

\* low[k]: a later column of the same lower-cased name overwrites the value
LowValue(columns, k) ==
    columns[CHOOSE i \in 1..Len(columns) :
                /\ LowerStr(columns[i]) = k
                /\ \A j \in (i+1)..Len(columns) : LowerStr(columns[j]) # k]

Found(col) == [status |-> "found", col |-> col]
NotFound == [status |-> "none", col |-> <<>>]
\* line 53: the error names the candidates sought and the columns present
KeyError(want, columns) ==
    [status |-> "KeyError", col |-> <<>>, need |-> want, available |-> columns]

\* _find_col with the substring pass tried before the exact pass
_find_col_SubstringFirst(columns, want, required) ==
    LET keys == LowKeys(columns)
        exact == {i \in 1..Len(want) : \E n \in 1..Len(keys) : keys[n] = want[i]}
        contains == {n \in 1..Len(keys) : \E i \in 1..Len(want) : IsSubstr(want[i], keys[n])}
    IN  IF contains # {}
        THEN Found(LowValue(columns, keys[CHOOSE n \in contains : \A m \in contains : n <= m]))
        ELSE IF exact # {}
        THEN Found(LowValue(columns, want[CHOOSE i \in exact : \A j \in exact : i <= j]))
        ELSE IF required THEN KeyError(want, columns)
        ELSE NotFound

\* _find_col
_find_col(columns, want, required) ==
    LET keys == LowKeys(columns)
        exact == {i \in 1..Len(want) : \E n \in 1..Len(keys) : keys[n] = want[i]}
        contains == {n \in 1..Len(keys) : \E i \in 1..Len(want) : IsSubstr(want[i], keys[n])}
    IN  IF exact # {}
        THEN Found(LowValue(columns, want[CHOOSE i \in exact : \A j \in exact : i <= j]))
        ELSE IF contains # {}
        THEN Found(LowValue(columns, keys[CHOOSE n \in contains : \A m \in contains : n <= m]))
        ELSE IF required THEN KeyError(want, columns)
        ELSE NotFound

(***************************************************************************)
(* SpecFindCol: _find_col applied to one header and one candidate list     *)
(***************************************************************************)
MaxCols == 3

ColumnNames ==
    { Chars("Title"), Chars("TITLE"), Chars("Name"), Chars("Media Name"),
      Chars("Duration"), Chars("User Name"), Chars("Total View Time"),
      Chars("Average View Time") }

\* headers: sequences of distinct column names
Headers(names, n) ==
    { h \in UNION { [1..m -> names] : m \in 0..n } :
        \A i, j \in 1..Len(h) : i # j => h[i] # h[j] }

FindColIdle ==
    /\ fc_columns = None
    /\ fc_want = None
    /\ fc_required = None
    /\ fc_out = None
    /\ fc_pc = "idle"

FindColStart ==
    /\ fc_columns \in Headers(ColumnNames, MaxCols)
    /\ fc_want \in {CANDIDATES[r] : r \in DOMAIN CANDIDATES}
    /\ fc_required \in BOOLEAN
    /\ fc_out = None
    /\ fc_pc = "start"

CallFindCol ==
    /\ fc_pc = "start"
    /\ fc_out' = _find_col(fc_columns, fc_want, fc_required)
    /\ fc_pc' = "done"
    /\ UNCHANGED <<fc_columns, fc_want, fc_required, nt_vars, ts_vars, gm_vars, bt_vars, app_vars>>

NextFindCol == CallFindCol

(***************************************************************************)
(* Fuzzy scorer: rapidfuzz.fuzz.token_set_ratio on two keys.  A score is   *)
(* the float num/den, kept exact as the pair [num, den] with den > 0.      *)
(***************************************************************************)
\* the characters of the model in code point order
CharOrder ==
    <<"\t", " ">> \o Chars("()+-0123456789:ABCDEFGHIJKLMNOPQRSTUVWXYZabcdefghijklmnopqrstuvwxyz")
    \o <<"U0130", "U0307">>

Ord(ch) == CHOOSE i \in 1..Len(CharOrder) : CharOrder[i] = ch

\* a < b for two Python strings
RECURSIVE StrLess(_, _)
StrLess(a, b) ==
    IF b = <<>> THEN FALSE
    ELSE IF a = <<>> THEN TRUE
    ELSE IF a[1] = b[1] THEN StrLess(Tail(a), Tail(b))
    ELSE Ord(a[1]) < Ord(b[1])

\* sorted(S) for a set of strings
RECURSIVE SortedStrs(_)
SortedStrs(S) ==
    IF S = {} THEN <<>>
    ELSE LET m == CHOOSE x \in S : \A y \in S \ {x} : StrLess(x, y)
         IN  <<m>> \o SortedStrs(S \ {m})

Max2(a, b) == IF a >= b THEN a ELSE b

\* length of a longest common subsequence
RECURSIVE LCS(_, _)
LCS(a, b) ==
    IF a = <<>> \/ b = <<>> THEN 0
    ELSE IF a[Len(a)] = b[Len(b)]
         THEN 1 + LCS(SubSeq(a, 1, Len(a) - 1), SubSeq(b, 1, Len(b) - 1))
         ELSE Max2(LCS(SubSeq(a, 1, Len(a) - 1), b), LCS(a, SubSeq(b, 1, Len(b) - 1)))

\* rapidfuzz Indel distance
IndelDistance(a, b) == Len(a) + Len(b) - 2 * LCS(a, b)

Score(num, den) == [num |-> num, den |-> den]
\* a >= b, a > b for two scores
ScoreGe(a, b) == a.num * b.den >= b.num * a.den
ScoreGt(a, b) == a.num * b.den > b.num * a.den
\* score >= n for an integer n
ScoreAtLeast(a, n) == a.num >= n * a.den
\* int(score)
ScoreInt(a) == a.num \div a.den
ScoreMax(a, b) == IF ScoreGe(a, b) THEN a ELSE b

\* 100 - 100 * dist / lensum, 100 when lensum is 0
NormDistance(dist, lensum) ==
    IF lensum = 0 THEN Score(100, 1) ELSE Score(100 * (lensum - dist), lensum)

\* fuzz.token_set_ratio from the lengths of the joined token strings and
\* the distance of the two differences
TokenRatios(sect_len, ab_len, ba_len, dist) ==
    LET sep == IF sect_len # 0 THEN 1 ELSE 0
        sect_ab_len == sect_len + sep + ab_len
        sect_ba_len == sect_len + sep + ba_len
    IN  IF sect_len = 0 THEN NormDistance(dist, sect_ab_len + sect_ba_len)
        ELSE ScoreMax(ScoreMax(NormDistance(dist, sect_ab_len + sect_ba_len),
                               NormDistance(sep + ab_len, sect_len + sect_ab_len)),
                      NormDistance(sep + ba_len, sect_len + sect_ba_len))

\* fuzz.token_set_ratio from the joined tokens: common, only in s1, only in s2
TokenJoined(sect_joined, diff_ab_joined, diff_ba_joined) ==
    TokenRatios(Len(sect_joined), Len(diff_ab_joined), Len(diff_ba_joined),
                IndelDistance(diff_ab_joined, diff_ba_joined))

\* fuzz.token_set_ratio from the two token sets
TokenSets(tokens_a, tokens_b) ==
    IF tokens_a = {} \/ tokens_b = {} THEN Score(0, 1)
    ELSE IF tokens_a \cap tokens_b # {} /\ (tokens_a \subseteq tokens_b \/ tokens_b \subseteq tokens_a)
    THEN Score(100, 1)
    ELSE TokenJoined(Join(SortedStrs(tokens_a \cap tokens_b), <<" ">>),
                     Join(SortedStrs(tokens_a \ tokens_b), <<" ">>),
                     Join(SortedStrs(tokens_b \ tokens_a), <<" ">>))

\* fuzz.token_set_ratio(s1, s2), no processor, no score_cutoff
token_set_ratio(s1, s2) ==
    IF s1 = <<>> \/ s2 = <<>> THEN Score(0, 1)
    ELSE TokenSets(Range(SplitWs(s1)), Range(SplitWs(s2)))

(***************************************************************************)
(* Greedy one-to-one matcher.  Lists are indexed from 1 here and from 0 in *)
(* the Python code.                                                        *)
(***************************************************************************)
\* Fuzzy matching knobs
THRESHOLD == 80
FALLBACK_MIN == 70
TOP_K == 6

\* the keys of the model, and the scorer's value on each pair of them
\* (computed once)
GreedyKeys ==
    { Chars("lecture 1"), Chars("lecture 2"), Chars("lecture 1 intro"), Chars("lec 1") }

\* keys whose scores fall between the same two integers: "lecture 001"
\* scores 90.0 against "lecture 1" and 90.9 against "lecture 100"
TieKeys == { Chars("lecture 1"), Chars("lecture 100"), Chars("lecture 001") }

ScoreKeys == GreedyKeys \cup TieKeys

ScoreTable ==
    [p \in ScoreKeys \X ScoreKeys |-> token_set_ratio(p[1], p[2])] @@ [p \in {} |-> Score(0, 1)]

\* FUZZY_SCORER
FUZZY_SCORER(a, b) ==
    IF a \in ScoreKeys /\ b \in ScoreKeys THEN ScoreTable[<<a, b>>] ELSE token_set_ratio(a, b)

Min2(a, b) == IF a <= b THEN a ELSE b

\* the score of ek against each of ckeys
Scores(ek, ckeys) == [j \in 1..Len(ckeys) |-> FUZZY_SCORER(ek, ckeys[j])]

\* j comes before m in the order of process.extract's result: score
\* descending, equal scores by index ascending
Before(sc, j, m) == ScoreGt(sc[j], sc[m]) \/ (j < m /\ ScoreGe(sc[j], sc[m]))

\* the indices in S in the order of process.extract's result
RECURSIVE ByScore(_, _)
ByScore(S, sc) ==
    IF S = {} THEN <<>>
    ELSE LET best == CHOOSE j \in S : \A m \in S \ {j} : Before(sc, j, m)
         IN  <<best>> \o ByScore(S \ {best}, sc)

\* process.extract(ek, ckeys, scorer=FUZZY_SCORER, limit=top_k): the indices
\* of the top_k choices, best first
Extract(ek, ckeys, top_k) ==
    SubSeq(ByScore(1..Len(ckeys), Scores(ek, ckeys)), 1, Min2(top_k, Len(ckeys)))

\* process.extractOne(ek, ckeys, scorer=FUZZY_SCORER): the index of the best
\* choice (the first of several), 0 for None (no choices)
ExtractOne(ek, ckeys) ==
    IF ckeys = <<>> THEN 0 ELSE ByScore(1..Len(ckeys), Scores(ek, ckeys))[1]

Pair(i, j, sc) == [e |-> i, c |-> j, score |-> sc]

\* every one of the top choices kept, whatever its score
KeepAtLeast_KeepAll(i, topn, sc, threshold) ==
    [n \in 1..Len(topn) |-> Pair(i, topn[n], ScoreInt(sc[topn[n]]))]

\* lines 120-122: of one echo key's top choices, those scoring >= threshold
KeepAtLeast(i, topn, sc, threshold) ==
    LET keep == SelectSeq(topn, LAMBDA j : ScoreAtLeast(sc[j], threshold))
    IN  [n \in 1..Len(keep) |-> Pair(i, keep[n], ScoreInt(sc[keep[n]]))]

\* lines 117-122: per echo key, its top_k canvas choices scoring >= threshold
RECURSIVE ThresholdCandidates(_, _, _, _, _)
ThresholdCandidates(i, ekeys, ckeys, threshold, top_k) ==
    IF i > Len(ekeys) THEN <<>>
    ELSE KeepAtLeast(i, Extract(ekeys[i], ckeys, top_k), Scores(ekeys[i], ckeys), threshold)
         \o ThresholdCandidates(i + 1, ekeys, ckeys, threshold, top_k)

\* lines 131-132: one echo key's best choice if it scores >= fallback_min
BestIfAtLeast(i, best, sc, fallback_min) ==
    IF best # 0 /\ ScoreAtLeast(sc[best], fallback_min)
    THEN <<Pair(i, best, ScoreInt(sc[best]))>>
    ELSE <<>>

\* lines 129-132: per echo key, its single best choice if >= fallback_min
RECURSIVE FallbackCandidates(_, _, _, _)
FallbackCandidates(i, ekeys, ckeys, fallback_min) ==
    IF i > Len(ekeys) THEN <<>>
    ELSE BestIfAtLeast(i, ExtractOne(ekeys[i], ckeys), Scores(ekeys[i], ckeys), fallback_min)
         \o FallbackCandidates(i + 1, ekeys, ckeys, fallback_min)

\* line 128: if not candidates
IfNone(first, fallback) == IF first # <<>> THEN first ELSE fallback

\* the candidates list with the fallback choices added whatever passed
Candidates_AlwaysFallback(ekeys, ckeys, threshold, fallback_min, top_k) ==
    ThresholdCandidates(1, ekeys, ckeys, threshold, top_k)
        \o FallbackCandidates(1, ekeys, ckeys, fallback_min)

\* the candidates list before it is sorted
Candidates(ekeys, ckeys, threshold, fallback_min, top_k) ==
    IfNone(ThresholdCandidates(1, ekeys, ckeys, threshold, top_k),
           FallbackCandidates(1, ekeys, ckeys, fallback_min))

\* the candidates left in the order of appending
SortByScoreDesc_Unsorted(cands) == cands

\* candidates.sort(key=lambda t: t[2], reverse=True): stable, so pairs of
\* equal score keep the order in which they were appended
RECURSIVE SortByScoreDesc(_)
SortByScoreDesc(cands) ==
    IF cands = <<>> THEN <<>>
    ELSE LET n == CHOOSE k \in 1..Len(cands) :
                    /\ \A m \in 1..Len(cands) : cands[m].score <= cands[k].score
                    /\ \A m \in 1..(k-1) : cands[m].score < cands[k].score
         IN  <<cands[n]>>
             \o SortByScoreDesc(SubSeq(cands, 1, n-1) \o SubSeq(cands, n+1, Len(cands)))

\* every candidate taken, used or not
GreedySelect_TakeAll(cands, used_e, used_c) == cands

\* lines 136-145: take each pair whose two sides are both unused
RECURSIVE GreedySelect(_, _, _)
GreedySelect(cands, used_e, used_c) ==
    IF cands = <<>> THEN <<>>
    ELSE LET t == cands[1]
         IN  IF t.e \in used_e \/ t.c \in used_c
             THEN GreedySelect(Tail(cands), used_e, used_c)
             ELSE <<t>> \o GreedySelect(Tail(cands), used_e \cup {t.e}, used_c \cup {t.c})

\* _greedy_match
_greedy_match(ekeys, ckeys, threshold, fallback_min, top_k) ==
    GreedySelect(SortByScoreDesc(Candidates(ekeys, ckeys, threshold, fallback_min, top_k)),
                 {}, {})

(***************************************************************************)
(* SpecGreedy: _greedy_match applied to two key lists                      *)
(***************************************************************************)
MaxEKeys == 2
MaxCKeys == 3

\* the knobs build_echo_tables passes, and a top_k small enough to cut
GreedyKnobs == { <<THRESHOLD, FALLBACK_MIN, TOP_K>>, <<THRESHOLD, FALLBACK_MIN, 2>> }

GreedyIdle ==
    /\ gm_ekeys = None
    /\ gm_ckeys = None
    /\ gm_knobs = None
    /\ gm_out = None
    /\ gm_pc = "idle"

GreedyStart ==
    /\ gm_ekeys \in UNION { [1..n -> GreedyKeys] : n \in 0..MaxEKeys }
    /\ gm_ckeys \in UNION { [1..n -> GreedyKeys] : n \in 0..MaxCKeys }
    /\ gm_knobs \in GreedyKnobs
    /\ gm_out = None
    /\ gm_pc = "start"

\* <<threshold, fallback_min, top_k>>: the knobs of build_echo_tables, a
\* top_k that cuts, a threshold nothing below 100 reaches with a fallback
\* everything reaches, and a threshold everything reaches
TieKnobs == GreedyKnobs \cup { <<95, 50, 1>>, <<0, 0, 6>> }

\* SpecTies: the key lists drawn from TieKeys
TieStart ==
    /\ gm_ekeys \in UNION { [1..n -> TieKeys] : n \in 0..MaxEKeys }
    /\ gm_ckeys \in UNION { [1..n -> TieKeys] : n \in 0..MaxCKeys }
    /\ gm_knobs \in TieKnobs
    /\ gm_out = None
    /\ gm_pc = "start"

CallGreedyMatch ==
    /\ gm_pc = "start"
    /\ gm_out' = _greedy_match(gm_ekeys, gm_ckeys, gm_knobs[1], gm_knobs[2], gm_knobs[3])
    /\ gm_pc' = "done"
    /\ UNCHANGED <<gm_ekeys, gm_ckeys, gm_knobs, nt_vars, ts_vars, fc_vars, bt_vars, app_vars>>

NextGreedy == CallGreedyMatch

(***************************************************************************)
(* build_echo_tables: the engagement table.  A table is [columns, rows],   *)
(* each row a sequence of cells aligned with the columns.  A fraction is   *)
(* the exact value n/d, kept reduced with d > 0.                           *)
(***************************************************************************)
Abs(n) == IF n < 0 THEN 0 - n ELSE n

RECURSIVE GCD(_, _)
GCD(a, b) == IF b = 0 THEN a ELSE GCD(b, a % b)

\* the float n/d, for d # 0
Frac(n, d) ==
    LET g == GCD(Abs(n), Abs(d))
        sgn == IF d < 0 THEN -1 ELSE 1
    IN  [k |-> "frac", n |-> sgn * (n \div g), d |-> sgn * (d \div g)]

FracAdd(a, b) == Frac(a.n * b.d + b.n * a.d, a.d * b.d)

RECURSIVE SeqSum(_)
SeqSum(s) == IF s = <<>> THEN 0 ELSE s[1] + SeqSum(Tail(s))

RECURSIVE FracSum(_)
FracSum(s) == IF s = <<>> THEN Frac(0, 1) ELSE FracAdd(s[1], FracSum(Tail(s)))

\* the mean with every missing value counted as zero
Mean_MissingAsZero(cells) ==
    LET have == SelectSeq(cells, LAMBDA x : ~IsNa(x))
        total == FracSum(have)
    IN  IF cells = <<>> THEN NaN ELSE Frac(total.n, total.d * Len(cells))

\* Series.mean(): the mean of the values that are not missing, missing if
\* there is none
Mean(cells) ==
    LET have == SelectSeq(cells, LAMBDA x : ~IsNa(x))
        total == FracSum(have)
    IN  IF have = <<>> THEN NaN ELSE Frac(total.n, total.d * Len(have))

\* the decimal digits of n >= 0
RECURSIVE DigitsOf(_)
DigitsOf(n) ==
    IF n < 10 THEN <<DigitSeq[n + 1]>>
    ELSE DigitsOf(n \div 10) \o <<DigitSeq[(n % 10) + 1]>>

\* Series.astype(str) on one cell: str(x)
AsStr(x) ==
    IF x.k = "str" THEN x.v
    ELSE IF x.k = "nan" THEN Chars("nan")
    ELSE (IF x.v < 0 THEN <<"-">> ELSE <<>>) \o DigitsOf(Abs(x.v)) \o Chars(".0")

ColIndex(columns, name) == CHOOSE i \in 1..Len(columns) : columns[i] = name

\* df[name]
Column(t, name) == [r \in 1..Len(t.rows) |-> t.rows[r][ColIndex(t.columns, name)]]

\* df[name] = df[name].map(_to_seconds)
MapToSeconds(t, name) ==
    [columns |-> t.columns,
     rows |-> [r \in 1..Len(t.rows) |->
                 [c \in 1..Len(t.columns) |->
                     IF c = ColIndex(t.columns, name)
                     THEN _to_seconds(t.rows[r][c]) ELSE t.rows[r][c]]]]

\* the five lookups of lines 158-162 in one header
LookUp(columns) ==
    [media    |-> _find_col(columns, CANDIDATES.media, TRUE),
     duration |-> _find_col(columns, CANDIDATES.duration, TRUE),
     viewtime |-> _find_col(columns, CANDIDATES.viewtime, TRUE),
     avgview  |-> _find_col(columns, CANDIDATES.avgview, FALSE),
     user     |-> _find_col(columns, CANDIDATES.user, FALSE)]

\* the headers of the tables below, looked up once
KnownHeaders ==
    { <<Chars("Media Name"), Chars("Duration"), Chars("Total View Time"), Chars("User Name")>>,
      <<Chars("Media Name"), Chars("Duration"), Chars("Total View Time")>>,
      <<Chars("Media Name"), Chars("Total View Time")>> }

LookUpTable == [h \in KnownHeaders |-> LookUp(h)] @@ [h \in {} |-> NotFound]

\* lines 158-162: the five column lookups
ResolveColumns(t) ==
    IF t.columns \in KnownHeaders THEN LookUpTable[t.columns] ELSE LookUp(t.columns)

\* a lookup of any of the five roles found no column
ColumnsMissing_AnyRole(cols) ==
    \E r \in {"media", "duration", "viewtime", "avgview", "user"} : cols[r].status # "found"

\* a required lookup raised
ColumnsMissing(cols) ==
    \E r \in {"media", "duration", "viewtime"} : cols[r].status = "KeyError"

\* lines 165-168: the time columns in seconds
ParseTimes(t, cols) ==
    LET t1 == MapToSeconds(t, cols.duration.col)
        t2 == MapToSeconds(t1, cols.viewtime.col)
    IN  IF cols.avgview.status = "found" THEN MapToSeconds(t2, cols.avgview.col) ELSE t2

\* line 171: np.where(dur > 0, view / dur, nan), per row
TrueViewFrac(t, cols) ==
    LET dur == Column(t, cols.duration.col)
        view == Column(t, cols.viewtime.col)
    IN  [r \in 1..Len(t.rows) |->
            IF dur[r].k = "num" /\ dur[r].v > 0 /\ view[r].k = "num"
            THEN Frac(view[r].v, dur[r].v)
            ELSE NaN]

\* the rows of a group, in input order
RowsWhere(n, P(_)) == SelectSeq([r \in 1..n |-> r], P)

\* the first value of the group, missing or not
FirstValid_FirstCell(cells) == cells[1]

\* GroupBy.first(): the first value of the group that is not missing
FirstValid(cells) ==
    LET have == SelectSeq(cells, LAMBDA x : ~IsNa(x))
    IN  IF have = <<>> THEN NaN ELSE have[1]

\* every row of the group counted as a viewer
UniqueViewers_CountRows(t, cols, rows) == Len(rows)

\* lines 175-178: distinct users of the group's rows (nunique(dropna=True)),
\* or without a user column the rows with a view time
UniqueViewers(t, cols, rows) ==
    IF cols.user.status = "found"
    THEN Cardinality({Column(t, cols.user.col)[r] :
                        r \in {x \in Range(rows) : ~IsNa(Column(t, cols.user.col)[x])}})
    ELSE Cardinality({r \in Range(rows) : ~IsNa(Column(t, cols.viewtime.col)[r])})

\* lines 175-186: one row per media title, the titles in sorted order
EchoSummary(t, cols, frac) ==
    LET title == [r \in 1..Len(t.rows) |-> AsStr(Column(t, cols.media.col)[r])]
        keys == SortedStrs(Range(title))
        dur == Column(t, cols.duration.col)
        members(g) == RowsWhere(Len(t.rows), LAMBDA r : title[r] = keys[g])
    IN  [g \in 1..Len(keys) |->
            [title    |-> keys[g],
             duration |-> FirstValid([n \in 1..Len(members(g)) |-> dur[members(g)[n]]]),
             viewers  |-> UniqueViewers(t, cols, members(g)),
             avg      |-> Mean([n \in 1..Len(members(g)) |-> frac[members(g)[n]]])]]

(***************************************************************************)
(* build_echo_tables: the Canvas side.  canvas_order_df is                 *)
(* [present, columns, rows]: present is FALSE for None, columns is a set   *)
(* of column names, each row a function from the columns to cells.         *)
(***************************************************************************)
\* line 199: the title columns in order of preference
TitleColumns == <<"video_title_raw", "item_title_raw", "item_title_normalized">>

\* lines 198-202
CanvasTitleCol(canvas) ==
    LET have == {i \in 1..Len(TitleColumns) : TitleColumns[i] \in canvas.columns}
    IN  IF have = {} THEN None
        ELSE TitleColumns[CHOOSE i \in have : \A j \in have : i <= j]

\* line 192: no curriculum to match against
CanvasSkipped(canvas) ==
    \/ ~canvas.present
    \/ canvas.rows = <<>>
    \/ canvas.columns = {}
    \/ "module" \notin canvas.columns

\* line 205: selecting a column the table lacks raises KeyError
OrderRaises(canvas) ==
    \/ "module_position" \notin canvas.columns
    \/ CanvasTitleCol(canvas) = None

\* _norm_series on one cell: fillna(""), then _norm_text
NormCell(x) == IF IsNa(x) THEN _norm_text(<<>>) ELSE _norm_text(AsStr(x))

\* lines 204-212: the rows with a module and a title, each with its key;
\* idx is the row's label, its position in canvas_order_df
Order(canvas) ==
    LET tcol == CanvasTitleCol(canvas)
        kept == RowsWhere(Len(canvas.rows), LAMBDA r :
                    ~IsNa(canvas.rows[r]["module"]) /\ ~IsNa(canvas.rows[r][tcol]))
    IN  [n \in 1..Len(kept) |->
            [idx             |-> kept[n],
             module          |-> canvas.rows[kept[n]]["module"],
             module_position |-> canvas.rows[kept[n]]["module_position"],
             title           |-> canvas.rows[kept[n]][tcol],
             ckey            |-> NormCell(canvas.rows[kept[n]][tcol])]]

\* the key column written into canvas_order_df itself
CanvasAfterOrder_KeyInPlace(canvas) ==
    [present |-> TRUE,
     columns |-> canvas.columns \cup {"_ckey"},
     rows    |-> [n \in 1..Len(canvas.rows) |->
                    [c \in canvas.columns \cup {"_ckey"} |->
                        IF c = "_ckey"
                        THEN Text(NormCell(canvas.rows[n][CanvasTitleCol(canvas)]))
                        ELSE canvas.rows[n][c]]]]

\* lines 204-212: canvas_order_df after order is built.  The selection of
\* three columns, dropna, rename and copy each return a new table, and the
\* key column is assigned to that table.
CanvasAfterOrder(canvas) == canvas

\* lines 213-214: es, the per-media summary with its keys
WithKeys(summary) ==
    [g \in 1..Len(summary) |->
        [title |-> summary[g].title, duration |-> summary[g].duration,
         viewers |-> summary[g].viewers, avg |-> summary[g].avg,
         ekey |-> _norm_text(summary[g].title)]]

\* a row of m1: the curriculum row and the media columns joined to it
Joined(o, ekey, title, duration, viewers, avg) ==
    [idx |-> o.idx, module |-> o.module, module_position |-> o.module_position,
     ctitle |-> o.title, ckey |-> o.ckey,
     ekey |-> ekey, title |-> title, duration |-> duration, viewers |-> viewers, avg |-> avg]

\* lines 217-220: order.merge(es, left_on="_ckey", right_on="_ekey",
\* how="left"): per curriculum row, in order, one row per media of equal
\* key, in es order, or one row of missing values
RECURSIVE ExactMerge(_, _)
ExactMerge(order, es) ==
    IF order = <<>> THEN <<>>
    ELSE LET o == order[1]
             hits == RowsWhere(Len(es), LAMBDA g : es[g].ekey = o.ckey)
         IN  (IF hits = <<>>
              THEN <<Joined(o, NaN, NaN, NaN, NaN, NaN)>>
              ELSE [n \in 1..Len(hits) |->
                       Joined(o, Text(es[hits[n]].ekey), Text(es[hits[n]].title),
                              es[hits[n]].duration, Num(es[hits[n]].viewers),
                              es[hits[n]].avg)])
             \o ExactMerge(Tail(order), es)

\* line 223: the rows of m1 without an average view fraction
UnmatchedIdx(m1) == RowsWhere(Len(m1), LAMBDA n : IsNa(m1[n].avg))

\* lines 226-230: what the fuzzy pass is run on, and what it returns
FuzzyPass(m1, es) ==
    LET unmatched_idx == UnmatchedIdx(m1)
        ckeys == [j \in 1..Len(unmatched_idx) |-> m1[unmatched_idx[j]].ckey]
        ekeys == [i \in 1..Len(es) |-> es[i].ekey]
    IN  [unmatched_idx |-> unmatched_idx, ckeys |-> ckeys, ekeys |-> ekeys,
         pairs |-> _greedy_match(ekeys, ckeys, THRESHOLD, FALLBACK_MIN, TOP_K)]

\* line 238: es.loc[es["_ekey"] == ek].iloc[0]
FirstWithKey(es, ek) == es[CHOOSE g \in 1..Len(es) :
                              es[g].ekey = ek /\ \A h \in 1..(g-1) : es[h].ekey # ek]

\* lines 231-249: the media columns of each matched row overwritten
FillFuzzy(m1, es, fz) ==
    [n \in 1..Len(m1) |->
        IF \E p \in 1..Len(fz.pairs) : fz.unmatched_idx[fz.pairs[p].c] = n
        THEN LET p == CHOOSE q \in 1..Len(fz.pairs) : fz.unmatched_idx[fz.pairs[q].c] = n
                 erow == FirstWithKey(es, fz.ekeys[fz.pairs[p].e])
             IN  [m1[n] EXCEPT !.title = Text(erow.title), !.duration = erow.duration,
                               !.viewers = Num(erow.viewers), !.avg = erow.avg]
        ELSE m1[n]]

\* lines 222-249
NoFuzzy == [unmatched_idx |-> <<>>, ckeys |-> <<>>, ekeys |-> <<>>, pairs |-> <<>>]

Fuzzy(m1, es) == IF UnmatchedIdx(m1) = <<>> THEN NoFuzzy ELSE FuzzyPass(m1, es)

(***************************************************************************)
(* build_echo_tables: module and student aggregation                       *)
(***************************************************************************)
\* the order of groupby's sorted keys (module, module_position)
GroupKeyLess(a, b) ==
    \/ StrLess(a[1], b[1])
    \/ (a[1] = b[1] /\ a[2] < b[2])

RECURSIVE SortedGroupKeys(_)
SortedGroupKeys(S) ==
    IF S = {} THEN <<>>
    ELSE LET m == CHOOSE x \in S : \A y \in S \ {x} : GroupKeyLess(x, y)
         IN  <<m>> \o SortedGroupKeys(S \ {m})

\* the rows left in the order of the group keys
SortByPosition_GroupOrder(rows) == rows

\* sort_values(["module_position"]): ascending; rows of equal position keep
\* their order (numpy sorts the short arrays of the model by insertion)
RECURSIVE SortByPosition(_)
SortByPosition(rows) ==
    IF rows = <<>> THEN <<>>
    ELSE LET n == CHOOSE k \in 1..Len(rows) :
                    /\ \A m \in 1..Len(rows) : rows[k].module_position <= rows[m].module_position
                    /\ \A m \in 1..(k-1) : rows[k].module_position < rows[m].module_position
         IN  <<rows[n]>> \o SortByPosition(SubSeq(rows, 1, n-1) \o SubSeq(rows, n+1, Len(rows)))

\* lines 252-266: the matched rows grouped by (module, module_position),
\* rows without a position left out, then sorted by position
ModuleSorted(m1) ==
    LET have == SelectSeq(m1, LAMBDA row : ~IsNa(row.avg) /\ ~IsNa(row.module_position))
        keys == SortedGroupKeys({<<AsStr(have[n].module), have[n].module_position.v>> :
                                    n \in 1..Len(have)})
        members(g) == SelectSeq(have, LAMBDA row :
                         <<AsStr(row.module), row.module_position.v>> = keys[g])
    IN  SortByPosition(
            [g \in 1..Len(keys) |->
                [module          |-> keys[g][1],
                 module_position |-> keys[g][2],
                 avg     |-> Mean([n \in 1..Len(members(g)) |-> members(g)[n].avg]),
                 viewers |-> SeqSum([n \in 1..Len(members(g)) |-> members(g)[n].viewers.v])]])

\* line 267: drop(columns=["module_position"])
DropPosition(rows) ==
    [n \in 1..Len(rows) |->
        [module |-> rows[n].module, avg |-> rows[n].avg, viewers |-> rows[n].viewers]]

\* line 289: f"S{ix+1:04d}"
\* the id without its zero padding
StudentId_Unpadded(k) == <<"S">> \o DigitsOf(k)

StudentId(k) ==
    LET d == DigitsOf(k)
    IN  <<"S">> \o [i \in 1..(IF Len(d) < 4 THEN 4 - Len(d) ELSE 0) |-> "0"] \o d

\* lines 274-295: one row per user, the users in sorted order
StudentTable(t, cols, frac) ==
    IF cols.user.status # "found" THEN <<>>
    ELSE LET uid == Column(t, cols.user.col)
             dur == Column(t, cols.duration.col)
             view == Column(t, cols.viewtime.col)
             n == Len(t.rows)
             key == [r \in 1..n |-> IF IsNa(uid[r]) THEN Chars("unknown") ELSE AsStr(uid[r])]
             keys == SortedStrs(Range(key))
             total_seconds == SeqSum([i \in 1..Len(RowsWhere(n, LAMBDA r : ~IsNa(dur[r]))) |->
                                         dur[RowsWhere(n, LAMBDA r : ~IsNa(dur[r]))[i]].v])
             \* groupby(uid_col) leaves out the rows without a user
             mine(g) == RowsWhere(n, LAMBDA r :
                            ~IsNa(uid[r]) /\ AsStr(uid[r]) = keys[g] /\ ~IsNa(view[r]))
             seconds(g) == SeqSum([i \in 1..Len(mine(g)) |-> view[mine(g)[i]].v])
             group(g) == RowsWhere(n, LAMBDA r : key[r] = keys[g])
         IN  [g \in 1..Len(keys) |->
                [student |-> StudentId(g),
                 avg_when_watched |-> Mean([i \in 1..Len(group(g)) |-> frac[group(g)[i]]]),
                 of_total |-> IF total_seconds # 0 /\ mine(g) # <<>>
                              THEN Frac(seconds(g), total_seconds)
                              ELSE NaN]]

(***************************************************************************)
(* build_echo_tables as one step                                           *)
(***************************************************************************)
NoCanvas == [present |-> FALSE, columns |-> {}, rows |-> <<>>]

BuildIdle ==
    /\ df = None
    /\ canvas_order_df = None
    /\ found_cols = None
    /\ parsed = None
    /\ true_view_frac = None
    /\ echo_summary = None
    /\ m1_exact = None
    /\ fuzzy = None
    /\ m1_filled = None
    /\ module_sorted = None
    /\ module_table = None
    /\ student_table = None
    /\ bt_pc = "idle"

BuildStart(tables, curricula) ==
    /\ df \in tables
    /\ canvas_order_df \in curricula
    /\ found_cols = None
    /\ parsed = None
    /\ true_view_frac = None
    /\ echo_summary = None
    /\ m1_exact = None
    /\ fuzzy = None
    /\ m1_filled = None
    /\ module_sorted = None
    /\ module_table = None
    /\ student_table = None
    /\ bt_pc = "start"

\* a required column is missing, or (line 205) the curriculum lacks a column
BuildRaises ==
    /\ bt_pc = "start"
    /\ found_cols' = ResolveColumns(df)
    /\ \/ ColumnsMissing(found_cols')
       \/ (~CanvasSkipped(canvas_order_df) /\ OrderRaises(canvas_order_df))
    /\ bt_pc' = "raised"
    /\ UNCHANGED <<df, canvas_order_df, parsed, true_view_frac, echo_summary, m1_exact, fuzzy,
                   m1_filled, module_sorted, module_table, student_table>>
    /\ UNCHANGED <<nt_vars, ts_vars, fc_vars, gm_vars, app_vars>>

BuildReturns ==
    /\ bt_pc = "start"
    /\ found_cols' = ResolveColumns(df)
    /\ ~ColumnsMissing(found_cols')
    /\ ~(~CanvasSkipped(canvas_order_df) /\ OrderRaises(canvas_order_df))
    /\ parsed' = ParseTimes(df, found_cols')
    /\ true_view_frac' = TrueViewFrac(parsed', found_cols')
    /\ echo_summary' = EchoSummary(parsed', found_cols', true_view_frac')
    /\ m1_exact' = IF CanvasSkipped(canvas_order_df) THEN <<>>
                   ELSE ExactMerge(Order(canvas_order_df), WithKeys(echo_summary'))
    /\ fuzzy' = IF CanvasSkipped(canvas_order_df) THEN NoFuzzy
                ELSE Fuzzy(m1_exact', WithKeys(echo_summary'))
    /\ m1_filled' = FillFuzzy(m1_exact', WithKeys(echo_summary'), fuzzy')
    /\ module_sorted' = ModuleSorted(m1_filled')
    /\ module_table' = DropPosition(module_sorted')
    /\ student_table' = StudentTable(parsed', found_cols', true_view_frac')
    /\ bt_pc' = "done"
    /\ canvas_order_df' = IF CanvasSkipped(canvas_order_df) THEN canvas_order_df
                          ELSE CanvasAfterOrder(canvas_order_df)
    /\ UNCHANGED df
    /\ UNCHANGED <<nt_vars, ts_vars, fc_vars, gm_vars, app_vars>>

NextBuild == BuildRaises \/ BuildReturns

(***************************************************************************)
(* Spec: build_echo_tables on engagement tables and curricula whose titles *)
(* match exactly, fuzzily, or not at all                                   *)
(***************************************************************************)
MaxRows == 2
MaxItems == 2

EchoHeader ==
    <<Chars("Media Name"), Chars("Duration"), Chars("Total View Time"), Chars("User Name")>>

EchoRow(title, duration, view, user) ==
    <<Text(Chars(title)), Text(Chars(duration)), Text(Chars(view)), Text(Chars(user))>>

\* two spellings of one title, a second title, and a row whose duration is no time
MatchRows ==
    { EchoRow("Lecture 1", "10:00", "05:00", "a"),
      EchoRow("Lecture 1 (12:34)", "10:00", "05:00", "a"),
      EchoRow("Lecture 2", "10:00", "05:00", "a"),
      EchoRow("Lecture 1", "n/a", "05:00", "a") }

\* an export without a duration column
ShortTable ==
    [columns |-> <<Chars("Media Name"), Chars("Total View Time")>>,
     rows |-> << <<Text(Chars("Lecture 1")), Text(Chars("05:00"))>> >>]

MatchTables ==
    { [columns |-> EchoHeader, rows |-> rows] :
        rows \in UNION { [1..n -> MatchRows] : n \in 0..MaxRows } } \cup {ShortTable}

\* the columns build_order_df gives the curriculum that the builder reads
CanvasColumns ==
    {"module", "module_position", "item_title_raw", "video_title_raw", "item_title_normalized"}

\* a row of build_order_df for an item whose title carries no duration
CanvasRow(module, position, title) ==
    [c \in CanvasColumns |->
        IF c = "module" THEN Text(Chars(module))
        ELSE IF c = "module_position" THEN Num(position)
        ELSE IF c = "item_title_normalized" THEN Text(LowerStr(Chars(title)))
        ELSE Text(Chars(title))]

\* the module first in the course is last by name
CanvasRows ==
    { CanvasRow("Week A", 2, "Lecture 1"),
      CanvasRow("Week B", 1, "Lecture 1"),
      CanvasRow("Week B", 1, "Lecture 1 Intro"),
      CanvasRow("Week A", 2, "Lec 1") }

\* build_order_df lists the modules by position
InCourseOrder(rows) ==
    \A n \in 1..(Len(rows) - 1) :
        rows[n]["module_position"].v <= rows[n+1]["module_position"].v

Curricula ==
    { [present |-> TRUE, columns |-> CanvasColumns, rows |-> rows] :
        rows \in { r \in UNION { [1..n -> CanvasRows] : n \in 0..MaxItems } : InCourseOrder(r) } }
    \cup {NoCanvas}

(***************************************************************************)
(* SpecAgg: build_echo_tables on view times below, above and outside the   *)
(* duration, with and without a user                                       *)
(***************************************************************************)
AggTitles == { Chars("Lecture 1"), Chars("Lecture 2") }

\* half watched, watched twice over, and a negative number of seconds
AggViews == { Chars("05:00"), Chars("20:00"), Chars("-60") }

AggUsers == { Text(Chars("a")), NaN }

AggRows ==
    { <<Text(title), Text(Chars("10:00")), Text(view), user>> :
        title \in AggTitles, view \in AggViews, user \in AggUsers }

AggTables ==
    { [columns |-> EchoHeader, rows |-> rows] :
        rows \in UNION { [1..n -> AggRows] : n \in 0..MaxRows } } \cup {ShortTable}

AggCurricula ==
    { NoCanvas,
      [present |-> TRUE, columns |-> CanvasColumns,
       rows |-> << CanvasRow("Week B", 1, "Lecture 2"), CanvasRow("Week A", 2, "Lecture 1") >>] }

(***************************************************************************)
(* SpecMetrics: build_echo_tables on tables with and without a user        *)
(* column, several users, and cells that are no time                       *)
(***************************************************************************)
NoUserHeader == <<Chars("Media Name"), Chars("Duration"), Chars("Total View Time")>>

\* <<duration, total view time>>: both times, no duration, no view time
MetricTimes ==
    { <<Chars("10:00"), Chars("05:00")>>, <<Chars("n/a"), Chars("05:00")>>,
      <<Chars("10:00"), Chars("n/a")>> }

MetricUsers == { Text(Chars("a")), Text(Chars("b")), NaN }

MetricRows ==
    { <<Text(title), Text(times[1]), Text(times[2]), user>> :
        title \in AggTitles, times \in MetricTimes, user \in MetricUsers }

NoUserRows ==
    { <<Text(title), Text(times[1]), Text(times[2])>> :
        title \in AggTitles, times \in MetricTimes }

MetricTables ==
    { [columns |-> EchoHeader, rows |-> rows] :
        rows \in UNION { [1..n -> MetricRows] : n \in 0..MaxRows } }
    \cup { [columns |-> NoUserHeader, rows |-> rows] :
        rows \in UNION { [1..n -> NoUserRows] : n \in 0..MaxRows } }
    \cup {ShortTable}

MetricCurricula ==
    { [present |-> TRUE, columns |-> CanvasColumns,
       rows |-> << CanvasRow("Week B", 1, "Lecture 1"), CanvasRow("Week A", 2, "Lecture 2") >>] }

(***************************************************************************)
(* SpecCurricula: build_echo_tables on curricula that are absent, empty,   *)
(* lack a column, or hold modules at the same position                     *)
(***************************************************************************)
ShapeEchoRows ==
    { EchoRow("Lecture 1", "10:00", "05:00", "a"),
      EchoRow("Lecture 2", "10:00", "05:00", "b") }

ShapeTables ==
    { [columns |-> EchoHeader, rows |-> rows] :
        rows \in UNION { [1..n -> ShapeEchoRows] : n \in 0..MaxRows } } \cup {ShortTable}

\* two modules at position 1, the first of them last by name
ShapeRows ==
    { CanvasRow("Week B", 1, "Lecture 1"),
      CanvasRow("Week A", 1, "Lecture 2"),
      CanvasRow("Week A", 2, "Lecture 2") }

\* the curriculum without one of the columns, or without any title column
ShapeColumns ==
    { CanvasColumns,
      CanvasColumns \ {"module"},
      CanvasColumns \ {"module_position"},
      CanvasColumns \ {"video_title_raw"},
      CanvasColumns \ {"video_title_raw", "item_title_raw", "item_title_normalized"} }

Restrict(row, columns) == [c \in columns |-> row[c]]

ShapeCurricula ==
    { [present |-> TRUE, columns |-> columns,
       rows |-> [n \in 1..Len(rows) |-> Restrict(rows[n], columns)]] :
        columns \in ShapeColumns,
        rows \in { r \in UNION { [1..n -> ShapeRows] : n \in 0..MaxItems } : InCourseOrder(r) } }
    \cup {NoCanvas}

(***************************************************************************)
(* SpecRoles: build_echo_tables on exports with different headers          *)
(***************************************************************************)
\* the usual header, exports without a total view time or a media column,
\* an export with every role's column, and one without a duration
RoleHeaders ==
    { EchoHeader,
      <<Chars("Media Name"), Chars("Duration"), Chars("Average View Time")>>,
      <<Chars("User Name"), Chars("Duration"), Chars("Total View Time")>>,
      <<Chars("Media Name"), Chars("Duration"), Chars("Total View Time"),
        Chars("Average View Time"), Chars("User Name")>>,
      <<Chars("Media Name"), Chars("Total View Time")>> }

\* the cell of a row under the column called name
RoleCell(name, title, view) ==
    IF name = Chars("Media Name") THEN Text(title)
    ELSE IF name = Chars("User Name") THEN Text(Chars("a"))
    ELSE IF name = Chars("Duration") THEN Text(Chars("10:00"))
    ELSE Text(view)

RoleRows(header) ==
    { [c \in 1..Len(header) |-> RoleCell(header[c], title, view)] :
        title \in AggTitles, view \in {Chars("05:00"), Chars("10:00")} }

RoleTables ==
    UNION { { [columns |-> header, rows |-> rows] :
                rows \in UNION { [1..n -> RoleRows(header)] : n \in 0..MaxRows } } :
            header \in RoleHeaders }

(***************************************************************************)
(* CanvasService._get_all (src/services/canvas.py).  The server holds a    *)
(* chain of pages; a response is [status, data, link], link the text of    *)
(* the Link header, empty when the response has none.                      *)
(***************************************************************************)
MaxPages == 3

\* the URL of page k
PageUrl(k) == <<"u", DigitSeq[k + 1]>>

\* s.strip(chars)
RECURSIVE StripChars(_, _)
StripChars(s, chars) ==
    IF s = <<>> THEN s
    ELSE IF s[1] \in chars THEN StripChars(Tail(s), chars)
    ELSE IF s[Len(s)] \in chars THEN StripChars(SubSeq(s, 1, Len(s) - 1), chars)
    ELSE s

\* the URL of the first part of the header, whatever its rel
NextLink_FirstPart(link) ==
    IF link = <<>> THEN <<>>
    ELSE Strip(StripChars(Strip(SplitOn(Strip(SplitOn(link, ",")[1]), ";")[1]), {"<", ">"}))

\* lines 49-56: the URL of the first part of the Link header that contains
\* rel="next", empty (None) when there is no header or no such part
NextLink(link) ==
    LET parts == SplitOn(link, ",")
        hits == {n \in 1..Len(parts) : IsSubstr(Chars("rel=\"next\""), Strip(parts[n]))}
    IN  IF link = <<>> \/ hits = {} THEN <<>>
        ELSE LET part == Strip(parts[CHOOSE n \in hits : \A m \in hits : n <= m])
             IN  Strip(StripChars(Strip(SplitOn(part, ";")[1]), {"<", ">"}))

\* client.get(url): the page at url, a 404 response when there is none
Response(pages, url) ==
    IF \E k \in 1..Len(pages) : PageUrl(k) = url
    THEN pages[CHOOSE k \in 1..Len(pages) : PageUrl(k) = url]
    ELSE [status |-> 404, data |-> [kind |-> "dict", value |-> 0], link |-> <<>>]

\* lines 43-47: a list extends out, an object is appended
Collected(out, data) ==
    IF data.kind = "list" THEN out \o data.value
    ELSE IF data.kind = "dict" THEN Append(out, data.value)
    ELSE out

\* line 38: params or {}
ParamsOrEmpty(params) == IF params = None THEN "{}" ELSE params

\* the Link header of page k of n: Canvas names the first page and, but on
\* the last page, the next; a plain server names the next page only
CanvasLink(k, n) ==
    Chars("<u1>; rel=\"first\"")
        \o (IF k < n THEN Chars(",<") \o PageUrl(k + 1) \o Chars(">; rel=\"next\"") ELSE <<>>)

PlainLink(k, n) ==
    IF k < n THEN Chars("<") \o PageUrl(k + 1) \o Chars(">; rel=\"next\"") ELSE <<>>

\* the headers the pages carry, each parsed once
KnownLinks ==
    UNION { {CanvasLink(k, n), PlainLink(k, n)} : k \in 1..MaxPages, n \in 1..MaxPages }

NextLinkTable == [link \in KnownLinks |-> NextLink(link)] @@ [link \in {} |-> <<>>]

\* lines 49-56 on the header of a response
ReadNextLink(link) == IF link \in KnownLinks THEN NextLinkTable[link] ELSE NextLink(link)

\* what page k may hold: two items or one object
PageData(k) ==
    { [kind |-> "list", value |-> <<10 * k + 1, 10 * k + 2>>],
      [kind |-> "dict", value |-> 10 * k] }

\* what page k of n may be
PagesAt(k, n) ==
    [status : {200, 500}, data : PageData(k), link : {CanvasLink(k, n), PlainLink(k, n)}]

\* the chains of pages k..n
RECURSIVE ChainsFrom(_, _)
ChainsFrom(k, n) ==
    IF k > n THEN {<<>>}
    ELSE {<<page>> \o rest : page \in PagesAt(k, n), rest \in ChainsFrom(k + 1, n)}

PageChains == UNION { ChainsFrom(1, n) : n \in 1..MaxPages }

GetAllIdle ==
    /\ ga_pages = None
    /\ ga_params = None
    /\ ga_next_url = None
    /\ ga_next_params = None
    /\ ga_out = None
    /\ ga_log = None
    /\ ga_ret = <<>>
    /\ ga_pc = "idle"

\* lines 36-38: the call on the first page's URL
GetAllStart ==
    /\ ga_pages \in PageChains
    /\ ga_params \in {None, "per_page=100"}
    /\ ga_next_url = PageUrl(1)
    /\ ga_next_params = ParamsOrEmpty(ga_params)
    /\ ga_out = <<>>
    /\ ga_log = <<>>
    /\ ga_ret = <<>>
    /\ ga_pc = "loop"

\* lines 40-42, a pass of the loop that ends in raise_for_status raising
GetAllRaise ==
    /\ ga_pc = "loop"
    /\ ga_next_url # <<>>
    /\ Len(ga_log) <= MaxPages
    /\ Response(ga_pages, ga_next_url).status >= 400
    /\ ga_log' = Append(ga_log, <<ga_next_url, ga_next_params>>)
    /\ ga_pc' = "raised"
    /\ UNCHANGED <<ga_pages, ga_params, ga_ret, ga_out, ga_next_url, ga_next_params>>
    /\ UNCHANGED <<nt_vars, ts_vars, fc_vars, gm_vars, bt_vars, wz_vars, so_vars>>

\* lines 40-59, a pass of the loop on a good response: the page collected
\* and the next URL read
GetAllPage ==
    /\ ga_pc = "loop"
    /\ ga_next_url # <<>>
    /\ Len(ga_log) <= MaxPages
    /\ Response(ga_pages, ga_next_url).status < 400
    /\ ga_log' = Append(ga_log, <<ga_next_url, ga_next_params>>)
    /\ ga_out' = Collected(ga_out, Response(ga_pages, ga_next_url).data)
    /\ ga_next_url' = ReadNextLink(Response(ga_pages, ga_next_url).link)
    /\ ga_next_params' = None
    /\ UNCHANGED <<ga_pages, ga_params, ga_ret, ga_pc>>
    /\ UNCHANGED <<nt_vars, ts_vars, fc_vars, gm_vars, bt_vars, wz_vars, so_vars>>

\* lines 40, 61: next_url is None, out is returned
GetAllReturn ==
    /\ ga_pc = "loop"
    /\ ga_next_url = <<>>
    /\ ga_ret' = <<ga_out>>
    /\ ga_pc' = "returned"
    /\ UNCHANGED <<ga_pages, ga_params, ga_next_url, ga_next_params, ga_out, ga_log>>
    /\ UNCHANGED <<nt_vars, ts_vars, fc_vars, gm_vars, bt_vars, wz_vars, so_vars>>

NextGetAll == GetAllRaise \/ GetAllPage \/ GetAllReturn

(***************************************************************************)
(* The upload wizard of app.py: one script run per user interaction        *)
(***************************************************************************)
\* session_state with key set to value
With(state, key, value) == (key :> value) @@ state

\* session_state after pop(k, None) of every k in keys
Without(state, keys) == [k \in (DOMAIN state) \ keys |-> state[k]]

NoInput == [click |-> "none", base_url |-> "", course_id |-> "", file |-> <<>>]

\* echo_adapter.py line 150: the parameters build_echo_tables declares
BuildEchoParams == {"echo_csv_file", "canvas_order_df"}

\* the EchoTables build_echo_tables returns on a file and a curriculum it
\* processes, named by what it was built from: its three tables are
\* echo_summary, module_table and student_table of BuildReturns
EchoTablesOf(file, canvas) == [echo_csv_file |-> file, canvas_order_df |-> canvas]

\* build_echo_tables raises on this file and curriculum
BuildEchoRaises(file, canvas) ==
    \/ ColumnsMissing(ResolveColumns(file))
    \/ (~CanvasSkipped(canvas) /\ OrderRaises(canvas))

\* the call build_echo_tables(file, canvas, **keywords): a keyword the
\* function does not declare is a TypeError before its body runs
CallBuildEchoTables(file, canvas, keywords) ==
    IF keywords \ BuildEchoParams # {} THEN [raised |-> "TypeError", value |-> <<>>]
    ELSE IF BuildEchoRaises(file, canvas) THEN [raised |-> "KeyError", value |-> <<>>]
    ELSE [raised |-> "", value |-> <<EchoTablesOf(file, canvas)>>]

\* app.py lines 111-113
run_echo_tables(file_bytes, canvas_df, students_total) ==
    CallBuildEchoTables(file_bytes, canvas_df, {"class_total_students"})

\* lines 183-188: the Restart button
Restarted(state) ==
    [step |-> 1,
     state |-> Without(state, {"canvas", "echo", "grades", "results", "base_url", "course_id", "student_count"}),
     error |-> <<>>]

\* lines 191-222: step 1 with the Continue button pressed; fetched is what
\* the two Canvas calls did
Step1(state, token, base_url, course_id, fetched) ==
    IF base_url = "" \/ course_id = "" \/ token = "" THEN [step |-> 1, state |-> state, error |-> <<>>]
    ELSE IF fetched.order_raised THEN [step |-> 1, state |-> state, error |-> <<"Canvas error">>]
    ELSE LET stored == With(With(With(state, "canvas", fetched.canvas), "base_url", base_url),
                            "course_id", course_id)
         IN  IF fetched.count_raised THEN [step |-> 1, state |-> stored, error |-> <<"Canvas error">>]
             ELSE [step |-> 2, state |-> With(stored, "student_count", fetched.count), error |-> <<>>]

\* lines 225-246: step 2 with a file in the uploader and Continue pressed
Step2(state, file) ==
    LET r == run_echo_tables(file, state["canvas"],
                             IF "student_count" \in DOMAIN state THEN state["student_count"] ELSE <<>>)
    IN  IF r.raised = "" THEN [step |-> 3, state |-> With(state, "echo", r.value[1]), error |-> <<>>]
        ELSE [step |-> 2, state |-> state, error |-> <<"Echo processing error", r.raised>>]

\* lines 249-267: step 3 with a file in the uploader and the button pressed;
\* gradebook is what run_gradebook_tables did
Step3(state, gradebook) ==
    IF gradebook.raised THEN [step |-> 3, state |-> state, error |-> <<"Gradebook processing error">>]
    ELSE [step |-> 4, state |-> With(With(state, "grades", gradebook.value), "results", TRUE),
          error |-> <<>>]

\* what the user may enter and upload
BaseUrls == {"", "https://canvas.example"}
CourseIds == {"", "123456"}

\* the curricula build_order_df may return
WizardCurricula == {c \in Curricula : c.present /\ Len(c.rows) <= 1}

\* what the two Canvas calls of step 1 may do
Fetches ==
    [order_raised : {TRUE}, canvas : {NoCanvas}, count_raised : {FALSE}, count : {<<>>}]
    \cup [order_raised : {FALSE}, canvas : WizardCurricula, count_raised : BOOLEAN,
          count : {<<>>, <<30>>}]

\* the Echo exports the user may upload: complete, and without a duration
EchoUploads ==
    { [columns |-> EchoHeader, rows |-> <<EchoRow("Lecture 1", "10:00", "05:00", "a")>>],
      ShortTable }

\* what run_gradebook_tables may do on the upload
Gradebooks == { [raised |-> TRUE, value |-> "none"], [raised |-> FALSE, value |-> "GradebookTables"] }

WizardIdle ==
    /\ wz_token = ""
    /\ wz_step = 0
    /\ wz_state = <<>>
    /\ wz_input = NoInput
    /\ wz_error = <<>>
    /\ wz_pc = "idle"

\* line 179: a new session
WizardStart ==
    /\ wz_token \in {"", "token"}
    /\ wz_step = 1
    /\ wz_state = <<>>
    /\ wz_input = NoInput
    /\ wz_error = <<>>
    /\ wz_pc = "run"

\* one run of the script (lines 179-267) on one interaction of the user
ScriptRun ==
    /\ wz_pc = "run"
    /\ \E click \in {"none", "restart", "continue"}, base_url \in BaseUrls, course_id \in CourseIds,
          upload \in {<<>>} \cup {<<f>> : f \in EchoUploads}, fetched \in Fetches,
          gradebook \in Gradebooks :
          LET after ==
                  IF click = "restart" THEN Restarted(wz_state)
                  ELSE IF wz_step = 1 /\ click = "continue"
                  THEN Step1(wz_state, wz_token, base_url, course_id, fetched)
                  ELSE IF wz_step = 2 /\ click = "continue" /\ upload # <<>>
                  THEN Step2(wz_state, upload[1])
                  ELSE IF wz_step = 3 /\ click = "continue" /\ upload # <<>>
                  THEN Step3(wz_state, gradebook)
                  ELSE [step |-> wz_step, state |-> wz_state, error |-> <<>>]
          IN  /\ wz_step' = after.step
              /\ wz_state' = after.state
              /\ wz_error' = after.error
              /\ wz_input' = [click |-> click,
                              base_url |-> IF wz_step = 1 THEN base_url ELSE "",
                              course_id |-> IF wz_step = 1 THEN course_id ELSE "",
                              file |-> IF wz_step \in {2, 3} THEN upload ELSE <<>>]
    /\ UNCHANGED <<wz_token, wz_pc>>
    /\ UNCHANGED <<nt_vars, ts_vars, fc_vars, gm_vars, bt_vars, ga_vars, so_vars>>

NextWizard == ScriptRun

(***************************************************************************)
(* sort_by_canvas_order of app.py                                          *)
(***************************************************************************)
\* DataFrame.empty: an axis of length 0
IsEmpty(t) == t.rows = <<>> \/ t.columns = {}

\* a before b in sort_values(["module_position", "module"]): a missing
\* position is last
OrderBefore(a, b) ==
    IF IsNa(a.module_position) THEN FALSE
    ELSE IF IsNa(b.module_position) THEN TRUE
    ELSE \/ a.module_position.v < b.module_position.v
         \/ (a.module_position.v = b.module_position.v /\ StrLess(AsStr(a.module), AsStr(b.module)))

\* the rows in ascending order of their rank, rows of equal rank in the
\* order given (numpy sorts the short arrays of the model by insertion)
RECURSIVE StableSort(_)
StableSort(rows) ==
    IF rows = <<>> THEN <<>>
    ELSE LET n == CHOOSE k \in 1..Len(rows) :
                    /\ \A m \in 1..Len(rows) : rows[k].rank <= rows[m].rank
                    /\ \A m \in 1..(k-1) : rows[k].rank < rows[m].rank
         IN  <<rows[n]>> \o StableSort(SubSeq(rows, 1, n-1) \o SubSeq(rows, n+1, Len(rows)))

\* pd.unique: the values in order of first appearance
RECURSIVE Unique(_)
Unique(s) ==
    IF s = <<>> THEN <<>>
    ELSE LET front == Unique(SubSeq(s, 1, Len(s) - 1))
         IN  IF \E i \in 1..Len(front) : front[i] = s[Len(s)] THEN front
             ELSE Append(front, s[Len(s)])

\* lines 130-136: the module names in order of position, then name
Categories(canvas) ==
    LET kept == SelectSeq(canvas.rows, LAMBDA row : ~IsNa(row["module"]))
        pairs == [n \in 1..Len(kept) |->
                     [module |-> kept[n]["module"], module_position |-> kept[n]["module_position"]]]
        order == StableSort([n \in 1..Len(pairs) |->
                     [module |-> pairs[n].module,
                      rank |-> Cardinality({m \in 1..Len(pairs) : OrderBefore(pairs[m], pairs[n])})]])
    IN  Unique([n \in 1..Len(order) |-> AsStr(order[n].module)])

\* the code pd.Categorical gives a value: its place in categories, 0 (NaN)
\* for a value that is no category
CategoryCode(categories, value) ==
    IF \E i \in 1..Len(categories) : categories[i] = value
    THEN CHOOSE i \in 1..Len(categories) : categories[i] = value
    ELSE 0

\* the place of a code in sort_values on the categorical column: missing
\* is last
CodeRank(categories, code) == IF code = 0 THEN Len(categories) + 1 ELSE code

\* lines 120-147
sort_by_canvas_order(t, module_col, canvas) ==
    IF ~t.present \/ IsEmpty(t) \/ ~canvas.present \/ IsEmpty(canvas) \/ module_col \notin t.columns
    THEN t
    ELSE LET categories == Categories(canvas)
             code(n) == CategoryCode(categories, AsStr(t.rows[n][module_col]))
             sorted == StableSort([n \in 1..Len(t.rows) |->
                          [row |-> t.rows[n], code |-> code(n),
                           rank |-> CodeRank(categories, code(n))]])
         IN  IF categories = <<>> THEN t
             ELSE [t EXCEPT !.rows =
                      [n \in 1..Len(sorted) |->
                          [sorted[n].row EXCEPT ![module_col] =
                              IF sorted[n].code = 0 THEN Text(Chars("nan"))
                              ELSE Text(categories[sorted[n].code])]]]

\* the columns of the per-module table that the sort reads or carries
ModuleColumns == {"Module", "# of Students Viewing"}

\* a row of a per-module table
ModuleRow(module, viewers) ==
    [c \in ModuleColumns |-> IF c = "Module" THEN Text(Chars(module)) ELSE Num(viewers)]

\* two modules of the course and one the curriculum does not list
ModuleRows ==
    { ModuleRow("Week A", 1), ModuleRow("Week B", 2), ModuleRow("Review", 3) }

\* the tables given: per-module tables, one without its module column, none
ModuleTables ==
    { [present |-> TRUE, columns |-> ModuleColumns, rows |-> rows] :
        rows \in UNION { [1..n -> ModuleRows] : n \in 0..MaxRows } }
    \cup { [present |-> TRUE, columns |-> {"# of Students Viewing"},
            rows |-> << [c \in {"# of Students Viewing"} |-> Num(1)] >>],
           NoCanvas }

SortIdle ==
    /\ so_df = None
    /\ so_module_col = None
    /\ so_canvas = None
    /\ so_out = None
    /\ so_pc = "idle"

SortStart ==
    /\ so_df \in ModuleTables
    /\ so_module_col = "Module"
    /\ so_canvas \in Curricula
    /\ so_out = None
    /\ so_pc = "start"

CallSortByCanvasOrder ==
    /\ so_pc = "start"
    /\ so_out' = sort_by_canvas_order(so_df, so_module_col, so_canvas)
    /\ so_pc' = "done"
    /\ UNCHANGED <<so_df, so_module_col, so_canvas>>
    /\ UNCHANGED <<nt_vars, ts_vars, fc_vars, gm_vars, bt_vars, ga_vars, wz_vars>>

NextSort == CallSortByCanvasOrder

AppIdle == GetAllIdle /\ WizardIdle /\ SortIdle

(***************************************************************************)
(* Specifications                                                          *)
(***************************************************************************)
InitNorm == NormStart /\ SecondsIdle /\ FindColIdle /\ GreedyIdle /\ BuildIdle /\ AppIdle
SpecNorm == InitNorm /\ [][NextNorm]_vars

InitSeconds == NormIdle /\ SecondsStart /\ FindColIdle /\ GreedyIdle /\ BuildIdle /\ AppIdle
SpecSeconds == InitSeconds /\ [][NextSeconds]_vars

InitFindCol == NormIdle /\ SecondsIdle /\ FindColStart /\ GreedyIdle /\ BuildIdle /\ AppIdle
SpecFindCol == InitFindCol /\ [][NextFindCol]_vars

InitGreedy == NormIdle /\ SecondsIdle /\ FindColIdle /\ GreedyStart /\ BuildIdle /\ AppIdle
SpecGreedy == InitGreedy /\ [][NextGreedy]_vars

InitTies == NormIdle /\ SecondsIdle /\ FindColIdle /\ TieStart /\ BuildIdle /\ AppIdle
SpecTies == InitTies /\ [][NextGreedy]_vars

Init ==
    /\ NormIdle /\ SecondsIdle /\ FindColIdle /\ GreedyIdle /\ AppIdle
    /\ BuildStart(MatchTables, Curricula)
Next == NextBuild
Spec == Init /\ [][Next]_vars

InitAgg ==
    /\ NormIdle /\ SecondsIdle /\ FindColIdle /\ GreedyIdle /\ AppIdle
    /\ BuildStart(AggTables, AggCurricula)
SpecAgg == InitAgg /\ [][Next]_vars

InitMetrics ==
    /\ NormIdle /\ SecondsIdle /\ FindColIdle /\ GreedyIdle /\ AppIdle
    /\ BuildStart(MetricTables, MetricCurricula)
SpecMetrics == InitMetrics /\ [][Next]_vars

InitCurricula ==
    /\ NormIdle /\ SecondsIdle /\ FindColIdle /\ GreedyIdle /\ AppIdle
    /\ BuildStart(ShapeTables, ShapeCurricula)
SpecCurricula == InitCurricula /\ [][Next]_vars

InitWizard ==
    /\ NormIdle /\ SecondsIdle /\ FindColIdle /\ GreedyIdle /\ BuildIdle
    /\ GetAllIdle /\ WizardStart /\ SortIdle
SpecWizard == InitWizard /\ [][NextWizard]_vars

InitSort ==
    /\ NormIdle /\ SecondsIdle /\ FindColIdle /\ GreedyIdle /\ BuildIdle
    /\ GetAllIdle /\ WizardIdle /\ SortStart
SpecSort == InitSort /\ [][NextSort]_vars

InitRoles ==
    /\ NormIdle /\ SecondsIdle /\ FindColIdle /\ GreedyIdle /\ AppIdle
    /\ BuildStart(RoleTables, MetricCurricula)
SpecRoles == InitRoles /\ [][Next]_vars

\* the loop of _get_all runs on until it returns or raises
InitGetAll ==
    /\ NormIdle /\ SecondsIdle /\ FindColIdle /\ GreedyIdle /\ BuildIdle
    /\ GetAllStart /\ WizardIdle /\ SortIdle
SpecGetAll == InitGetAll /\ [][NextGetAll]_vars /\ WF_vars(NextGetAll)

\* _find_col on its own and inside build_echo_tables
InitColumns == InitFindCol \/ Init
NextColumns == NextFindCol \/ NextBuild
SpecColumns == InitColumns /\ [][NextColumns]_vars

(***************************************************************************)
(* Properties of the title normalizer (SpecNorm)                           *)
(***************************************************************************)
\* C7: title normalization is idempotent: _norm_text(_norm_text(x)) equals
\* _norm_text(x) for every string x.
NormIdempotent == nt_pc = "twice" => nt_out2 = nt_out1

\* the normalizer with the steps in the order the specification lists them:
\* duration annotation, then read-only marker, then numeric id
NormInListedOrder(text) ==
    LET s == IF text = <<>> THEN <<>>
             ELSE Strip(NUM_ID_TAIL_sub(READ_ONLY_sub(DURATION_TAIL_sub(text))))
        mapped == Concat([i \in 1..Len(s) |->
                     IF IsAlnum(s[i]) \/ IsSpace(s[i]) THEN Lower(s[i]) ELSE <<" ">>])
    IN  Join(SplitWs(mapped), <<" ">>)

\* a read-only marker and/or a duration annotation, as they follow a title
NoiseSuffixes ==
    { Chars(" (Read Only)"), Chars(" (12:34)"), Chars(" (1:02:03)"),
      Chars(" (Read Only) (12:34)") }

\* C8: the normalizer strips the duration annotation, then the read-only
\* marker, then the numeric id, then case-folds, de-punctuates and collapses
\* whitespace; so a title followed by a read-only marker and/or a duration
\* annotation normalizes to the same key as the title alone.
NormStepOrder ==
    nt_pc = "once" =>
        /\ nt_out1 = NormInListedOrder(nt_in)
        /\ \A m \in NoiseSuffixes : _norm_text(nt_in \o m) = nt_out1

(***************************************************************************)
(* Properties of the duration parser (SpecSeconds)                         *)
(***************************************************************************)
\* C9: _to_seconds maps a missing or empty cell to missing, a number to
\* itself, numeric-looking text to its value, three numeric colon-separated
\* parts to h*3600+m*60+s, two to m*60+s, and anything else to missing;
\* "01:02:03" gives 3723, "12:34" gives 754, "45" gives 45, "" is missing.
ToSecondsRules ==
    ts_pc = "done" =>
        /\ IF ts_in.k = "nan" THEN ts_out = NaN
           ELSE IF ts_in.k = "num" THEN ts_out = Num(ts_in.v)
           ELSE LET n == Len(ts_parts)
                    ok(i) == ts_parts[i][2]
                    val(i) == ts_parts[i][3]
                IN  IF \E i \in 1..n : ~ok(i) THEN ts_out = NaN
                    ELSE IF n = 1 THEN ts_out = Num(val(1))
                    ELSE IF n = 2 THEN ts_out = Num(val(1) * 60 + val(2))
                    ELSE IF n = 3 THEN ts_out = Num(val(1) * 3600 + val(2) * 60 + val(3))
                    ELSE ts_out = NaN
        /\ ts_in = Text(Chars("01:02:03")) => ts_out = Num(3723)
        /\ ts_in = Text(Chars("12:34")) => ts_out = Num(754)
        /\ ts_in = Text(Chars("45")) => ts_out = Num(45)
        /\ ts_in = Text(Chars("")) => ts_out = NaN

\* a two-part and a three-part cell have been parsed
ToSecondsParsed ==
    /\ ts_pc = "done"
    /\ ts_in = Text(Chars("12:34"))
    /\ ts_out = Num(754)

(***************************************************************************)
(* Properties of the column resolver (SpecFindCol)                         *)
(***************************************************************************)
\* the columns whose lower-cased name equals a candidate / contains one
ExactColumns(columns, want) ==
    {j \in 1..Len(columns) : \E i \in 1..Len(want) : LowerStr(columns[j]) = want[i]}
SubstrColumns(columns, want) ==
    {j \in 1..Len(columns) : \E i \in 1..Len(want) : IsSubstr(want[i], LowerStr(columns[j]))}
Least(S) == CHOOSE x \in S : \A y \in S : x <= y
\* the last column with the same lower-cased name as column j
LastSameName(columns, j) ==
    columns[CHOOSE n \in 1..Len(columns) :
                /\ LowerStr(columns[n]) = LowerStr(columns[j])
                /\ \A m \in (n+1)..Len(columns) : LowerStr(columns[m]) # LowerStr(columns[j])]

\* C10 as stated: _find_col returns the first column, in table column order,
\* whose lower-cased name equals a candidate; only if there is none, the
\* first column, in table column order, whose lower-cased name contains a
\* candidate; an exact match takes precedence over a substring match.
FindColFirstColumn ==
    fc_pc = "done" =>
        LET ex == ExactColumns(fc_columns, fc_want)
            sub == SubstrColumns(fc_columns, fc_want)
        IN  IF ex # {} THEN fc_out = Found(fc_columns[Least(ex)])
            ELSE IF sub # {} THEN fc_out = Found(fc_columns[Least(sub)])
            ELSE fc_out.status # "found"

\* C10 as amended: _find_col returns the column whose lower-cased name equals
\* the earliest candidate, in candidate order, that equals any column's
\* lower-cased name; only if there is none, the column whose lower-cased name
\* is the first, in table column order, to contain a candidate; of several
\* columns sharing the chosen lower-cased name the last one is returned; an
\* exact match takes precedence over a substring match.
FindColFirstCandidate ==
    fc_pc = "done" =>
        LET ex == ExactColumns(fc_columns, fc_want)
            sub == SubstrColumns(fc_columns, fc_want)
            hit == {i \in 1..Len(fc_want) : \E j \in ex : LowerStr(fc_columns[j]) = fc_want[i]}
        IN  IF ex # {}
            THEN /\ fc_out.status = "found"
                 /\ LowerStr(fc_out.col) = fc_want[Least(hit)]
                 /\ \E j \in ex : fc_out.col = LastSameName(fc_columns, j)
            ELSE IF sub # {}
            THEN fc_out = Found(LastSameName(fc_columns, Least(sub)))
            ELSE fc_out.status # "found"

\* an exact match was preferred to a substring match in an earlier column,
\* and the earlier candidate to the earlier column
FindColExactPreferred ==
    /\ fc_pc = "done"
    /\ fc_columns = <<Chars("User Name"), Chars("Name"), Chars("Title")>>
    /\ fc_want = CANDIDATES.media
    /\ fc_out = Found(Chars("Title"))

(***************************************************************************)
(* C1-C6: the builder and the greedy matcher                               *)
(***************************************************************************)
\* the rows of m1 that carry a media once both passes have run
MatchedRows == {n \in 1..Len(m1_filled) : ~IsNa(m1_filled[n].title)}

\* C1: when build_echo_tables has returned, the exact and the fuzzy pass
\* together matched no curriculum item to two media and no media to two
\* curriculum items.
MatchesOneToOne ==
    bt_pc = "done" =>
        \A n \in MatchedRows : \A m \in MatchedRows \ {n} :
            /\ m1_filled[n].idx # m1_filled[m].idx
            /\ m1_filled[n].title # m1_filled[m].title

\* the media (rows of the per-media table) the exact pass joined to an item
ExactMedia ==
    {g \in 1..Len(echo_summary) :
        \E n \in 1..Len(m1_exact) : m1_exact[n].title = Text(echo_summary[g].title)}

\* the rows of m1 the exact pass joined to a media
ExactRows == {n \in 1..Len(m1_exact) : ~IsNa(m1_exact[n].ekey)}

\* C2: the keys handed to the fuzzy matcher hold no media and no curriculum
\* item that the exact pass matched.
FuzzyOnlyUnmatched ==
    bt_pc = "done" =>
        /\ \A g \in 1..Len(fuzzy.ekeys) : g \notin ExactMedia
        /\ \A j \in 1..Len(fuzzy.unmatched_idx) : fuzzy.unmatched_idx[j] \notin ExactRows

\* the score of media key i against curriculum key j in the run recorded
GmScore(i, j) == FUZZY_SCORER(gm_ekeys[i], gm_ckeys[j])

GmPairs == (1..Len(gm_ekeys)) \X (1..Len(gm_ckeys))

GmAccepted(i, j) == \E n \in 1..Len(gm_out) : gm_out[n].e = i /\ gm_out[n].c = j

GmAnyReaches == \E p \in GmPairs : ScoreAtLeast(GmScore(p[1], p[2]), gm_knobs[1])

\* the curriculum keys that come before j in media i's ranking
GmAhead(i, j) ==
    {m \in 1..Len(gm_ckeys) :
        \/ ScoreGt(GmScore(i, m), GmScore(i, j))
        \/ (m < j /\ ScoreGe(GmScore(i, m), GmScore(i, j)))}

\* C3 as stated: a scored pair is accepted exactly if it scores >= 80, or,
\* when no pair reaches 80, exactly if it scores >= 70 and no curriculum key
\* scores higher for its media.
ThresholdLaw ==
    gm_pc = "done" =>
        \A p \in GmPairs :
            GmAccepted(p[1], p[2]) <=>
                IF GmAnyReaches
                THEN ScoreAtLeast(GmScore(p[1], p[2]), gm_knobs[1])
                ELSE /\ ScoreAtLeast(GmScore(p[1], p[2]), gm_knobs[2])
                     /\ \A m \in 1..Len(gm_ckeys) :
                            ScoreGe(GmScore(p[1], p[2]), GmScore(p[1], m))

\* the pairs the threshold law lets in: >= threshold and among the top_k of
\* the media, or, when no pair reaches the threshold, >= fallback_min and
\* first in the media's ranking
GmEligible(i, j) ==
    IF GmAnyReaches
    THEN /\ ScoreAtLeast(GmScore(i, j), gm_knobs[1])
         /\ Cardinality(GmAhead(i, j)) < gm_knobs[3]
    ELSE /\ ScoreAtLeast(GmScore(i, j), gm_knobs[2])
         /\ GmAhead(i, j) = {}

\* an accepted pair of at least the score of (i, j) holds its media or item
GmTaken(i, j) ==
    \E n \in 1..Len(gm_out) :
        /\ gm_out[n].e = i \/ gm_out[n].c = j
        /\ gm_out[n].score >= ScoreInt(GmScore(i, j))

\* C3: only pairs the threshold law lets in are accepted, each with its
\* score cut to an integer, and a pair the law lets in is accepted unless
\* its media or its curriculum item went to an accepted pair of at least
\* the same integer score.
ThresholdLawOneToOne ==
    gm_pc = "done" =>
        /\ \A n \in 1..Len(gm_out) :
            /\ <<gm_out[n].e, gm_out[n].c>> \in GmPairs
            /\ GmEligible(gm_out[n].e, gm_out[n].c)
            /\ gm_out[n].score = ScoreInt(GmScore(gm_out[n].e, gm_out[n].c))
        /\ \A p \in GmPairs :
            GmEligible(p[1], p[2]) => GmAccepted(p[1], p[2]) \/ GmTaken(p[1], p[2])

\* a run in which a pair reaching the threshold lost its item to another
ThresholdPairLeftOut ==
    /\ gm_pc = "done"
    /\ gm_knobs = <<THRESHOLD, FALLBACK_MIN, TOP_K>>
    /\ gm_out # <<>>
    /\ \E p \in GmPairs :
        /\ ScoreAtLeast(GmScore(p[1], p[2]), THRESHOLD)
        /\ ~GmAccepted(p[1], p[2])
        /\ \A n \in 1..Len(gm_out) : gm_out[n].e # p[1]

InUnit(x) == IsNa(x) \/ (0 <= x.n /\ x.n <= x.d)

\* C4: every fraction emitted in the per-media, per-module and per-student
\* tables is missing or within [0,1].
FractionsInUnit ==
    bt_pc = "done" =>
        /\ \A g \in 1..Len(echo_summary) : InUnit(echo_summary[g].avg)
        /\ \A g \in 1..Len(module_table) : InUnit(module_table[g].avg)
        /\ \A g \in 1..Len(student_table) :
            /\ InUnit(student_table[g].avg_when_watched)
            /\ InUnit(student_table[g].of_total)

\* C6: row n of the per-module table is row n of the sorted rows without
\* its position, and the positions of adjacent rows never decrease.
ModulesInPositionOrder ==
    bt_pc = "done" =>
        /\ Len(module_table) = Len(module_sorted)
        /\ \A n \in 1..Len(module_table) : module_table[n].module = module_sorted[n].module
        /\ \A n \in 1..(Len(module_sorted) - 1) :
            module_sorted[n].module_position <= module_sorted[n+1].module_position

\* two modules came out in course order against the order of their names
ModulesReordered ==
    /\ bt_pc = "done"
    /\ Len(module_table) = 2
    /\ StrLess(module_table[2].module, module_table[1].module)
    /\ module_sorted[1].module_position < module_sorted[2].module_position

(***************************************************************************)
(* C11-C20: columns, per-media, per-module and per-student metrics         *)
(***************************************************************************)
\* no column's lower-cased name equals or contains a candidate
NoColumnFor(columns, want) == SubstrColumns(columns, want) = {}

RequiredRoles == {"media", "duration", "viewtime"}

\* C11: when no column matches, _find_col raises an error naming the
\* candidates and the table's columns if required and returns None if not;
\* build_echo_tables raises exactly when the media, duration or view-time
\* column is missing, never for the average-view or user column, and then
\* produces no table.
MissingColumnError ==
    /\ fc_pc = "done" /\ NoColumnFor(fc_columns, fc_want) =>
          fc_out = IF fc_required
                   THEN [status |-> "KeyError", col |-> <<>>,
                         need |-> fc_want, available |-> fc_columns]
                   ELSE NotFound
    /\ fc_pc = "done" /\ ~NoColumnFor(fc_columns, fc_want) => fc_out.status = "found"
    /\ bt_pc \in {"done", "raised"} =>
          /\ bt_pc = "raised" <=>
                \E r \in RequiredRoles : NoColumnFor(df.columns, CANDIDATES[r])
          /\ \A r \in RequiredRoles :
                NoColumnFor(df.columns, CANDIDATES[r]) =>
                    /\ found_cols[r].status = "KeyError"
                    /\ found_cols[r].need = CANDIDATES[r]
                    /\ found_cols[r].available = df.columns
          /\ \A r \in {"avgview", "user"} :
                found_cols[r].status = IF NoColumnFor(df.columns, CANDIDATES[r])
                                       THEN "none" ELSE "found"
    /\ bt_pc = "raised" =>
          /\ echo_summary = None
          /\ module_table = None
          /\ student_table = None

\* the builder stopped for the duration column of a table that also lacks
\* the optional columns
RaisedForDuration ==
    /\ bt_pc = "raised"
    /\ found_cols.duration.status = "KeyError"
    /\ found_cols.media.status = "found"
    /\ found_cols.user.status = "none"
    /\ found_cols.avgview.status = "none"

\* the cell of row r of the parsed table in the column found for a role
Cell(r, role) == parsed.rows[r][ColIndex(parsed.columns, found_cols[role].col)]

\* the rows of the media title of row g of the per-media table
RowsOfMedia(g) ==
    {r \in 1..Len(parsed.rows) : AsStr(Cell(r, "media")) = echo_summary[g].title}

\* C12 as stated: a media's duration is the parsed duration of the first row
\* of its group in input order, missing when that row's duration is.
FirstRowDuration ==
    bt_pc = "done" =>
        \A g \in 1..Len(echo_summary) :
            echo_summary[g].duration = Cell(Least(RowsOfMedia(g)), "duration")

\* C12: a media's duration is the parsed duration of the first row of its
\* group, in input order, whose duration is not missing, and is missing only
\* when no row of the group has one.
FirstKnownDuration ==
    bt_pc = "done" =>
        \A g \in 1..Len(echo_summary) :
            LET known == {r \in RowsOfMedia(g) : ~IsNa(Cell(r, "duration"))}
            IN  /\ RowsOfMedia(g) # {}
                /\ echo_summary[g].duration =
                       IF known = {} THEN NaN ELSE Cell(Least(known), "duration")

\* a media took its duration from a later row, its first row having none
DurationFromLaterRow ==
    /\ bt_pc = "done"
    /\ \E g \in 1..Len(echo_summary) :
        /\ IsNa(Cell(Least(RowsOfMedia(g)), "duration"))
        /\ echo_summary[g].duration = Num(600)

\* C13: a media's viewer count is the number of distinct users among its
\* rows when a user column was found, and otherwise the number of its rows
\* with a view time; it is a natural number.
UniqueViewerCount ==
    bt_pc = "done" =>
        \A g \in 1..Len(echo_summary) :
            /\ echo_summary[g].viewers \in Nat
            /\ echo_summary[g].viewers =
                  IF found_cols.user.status = "found"
                  THEN Cardinality({Cell(r, "user") : r \in RowsOfMedia(g)} \ {NaN})
                  ELSE Cardinality({r \in RowsOfMedia(g) : ~IsNa(Cell(r, "viewtime"))})

\* two rows of one media and one user made one viewer
SameUserCountedOnce ==
    /\ bt_pc = "done"
    /\ found_cols.user.status = "found"
    /\ \E g \in 1..Len(echo_summary) :
        /\ Cardinality(RowsOfMedia(g)) = 2
        /\ \A r \in RowsOfMedia(g) : Cell(r, "user") = Text(Chars("a"))
        /\ echo_summary[g].viewers = 1

\* the rows of m1 that carry a media and belong to row g of the per-module
\* table
MatchedInModule(g) ==
    {n \in MatchedRows :
        /\ AsStr(m1_filled[n].module) = module_sorted[g].module
        /\ m1_filled[n].module_position = Num(module_sorted[g].module_position)}

\* the sum of f over the finite set S
RECURSIVE SumOver(_, _)
SumOver(S, f) ==
    IF S = {} THEN 0
    ELSE LET x == CHOOSE y \in S : TRUE IN f[x] + SumOver(S \ {x}, f)

\* the rows in S in ascending order
RECURSIVE Ascending(_)
Ascending(S) == IF S = {} THEN <<>> ELSE <<Least(S)>> \o Ascending(S \ {Least(S)})

\* C14: a module's average is the unweighted mean of the averages of the
\* media matched to its items, and its viewer count is the sum of the viewer
\* counts of all media matched to its items, those without an average
\* included.
ModuleAggregates ==
    bt_pc = "done" =>
        \A g \in 1..Len(module_table) :
            LET rows == Ascending(MatchedInModule(g))
            IN  /\ module_table[g].avg = Mean([n \in 1..Len(rows) |-> m1_filled[rows[n]].avg])
                /\ module_table[g].viewers =
                      SumOver(MatchedInModule(g), [n \in MatchedRows |-> m1_filled[n].viewers.v])

\* the student group of row r: its user, "unknown" without one
UserKey(r) == IF IsNa(Cell(r, "user")) THEN Chars("unknown") ELSE AsStr(Cell(r, "user"))

\* the student groups in the order of the per-student table
StudentKeys == SortedStrs({UserKey(r) : r \in 1..Len(parsed.rows)})

\* the rows of the student group of row g of the per-student table
RowsOfStudent(g) == {r \in 1..Len(parsed.rows) : UserKey(r) = StudentKeys[g]}

\* the parsed view seconds of the rows in S, missing cells left out
ViewSeconds(S) ==
    SumOver({r \in S : ~IsNa(Cell(r, "viewtime"))},
            [r \in 1..Len(parsed.rows) |-> Cell(r, "viewtime").v])

\* the durations of the media of the catalog, each media once
CatalogSeconds ==
    SumOver({g \in 1..Len(echo_summary) : ~IsNa(echo_summary[g].duration)},
            [g \in 1..Len(echo_summary) |-> echo_summary[g].duration.v])

\* C15: a student's share of the catalog is the sum of the student's view
\* seconds over the sum of the durations of all media, each media counted
\* once.
ShareOfCatalog ==
    bt_pc = "done" /\ found_cols.user.status = "found" /\ CatalogSeconds > 0 =>
        \A g \in 1..Len(student_table) :
            (\E r \in RowsOfStudent(g) : ~IsNa(Cell(r, "user")) /\ ~IsNa(Cell(r, "viewtime"))) =>
                student_table[g].of_total = Frac(ViewSeconds(RowsOfStudent(g)), CatalogSeconds)

\* the durations of all rows, a media counted once per row
RowSeconds ==
    SumOver({r \in 1..Len(parsed.rows) : ~IsNa(Cell(r, "duration"))},
            [r \in 1..Len(parsed.rows) |-> Cell(r, "duration").v])

\* C16: the rows without a user form one student group, whose average is
\* the mean of its rows' view fractions and whose share is the sum of its
\* view seconds over the catalog total (the media once each, or once per
\* row), as for any other group.
UnknownStudentMetrics ==
    bt_pc = "done" /\ found_cols.user.status = "found" =>
        \A g \in 1..Len(student_table) :
            (\E r \in RowsOfStudent(g) : IsNa(Cell(r, "user"))) =>
                LET rows == Ascending(RowsOfStudent(g))
                IN  /\ \A r \in 1..Len(parsed.rows) :
                          IsNa(Cell(r, "user")) => r \in RowsOfStudent(g)
                    /\ student_table[g].avg_when_watched =
                          Mean([n \in 1..Len(rows) |-> true_view_frac[rows[n]]])
                    /\ (\E r \in RowsOfStudent(g) : ~IsNa(Cell(r, "viewtime")))
                          /\ CatalogSeconds > 0 =>
                            \/ student_table[g].of_total =
                                  Frac(ViewSeconds(RowsOfStudent(g)), CatalogSeconds)
                            \/ student_table[g].of_total =
                                  Frac(ViewSeconds(RowsOfStudent(g)), RowSeconds)

(***************************************************************************)
(* C17, C20: the curriculum's shape (SpecCurricula)                        *)
(***************************************************************************)
LacksStructure(canvas) ==
    \/ ~canvas.present
    \/ canvas.rows = <<>>
    \/ "module" \notin canvas.columns
    \/ "module_position" \notin canvas.columns
    \/ \A i \in 1..Len(TitleColumns) : TitleColumns[i] \notin canvas.columns

\* C17: when the engagement table has its columns and the curriculum is
\* absent, empty, or lacks the module name, module_position or every
\* item-title column, build_echo_tables returns, with an empty per-module
\* table and the per-media and per-student tables.
CurriculumOptional ==
    bt_pc \in {"done", "raised"} =>
        (~ColumnsMissing(found_cols) /\ LacksStructure(canvas_order_df) =>
            /\ bt_pc = "done"
            /\ module_table = <<>>
            /\ Len(echo_summary) >= 0
            /\ Len(student_table) >= 0)

(***************************************************************************)
(* C18: cells that are no time (SpecMetrics)                               *)
(***************************************************************************)
\* the cell of row r in the column found for role, as read
RawCell(r, role) == df.rows[r][ColIndex(df.columns, found_cols[role].col)]

NoTime == Text(Chars("n/a"))

\* the rows in S with a view time and a positive duration
WithFraction(S) ==
    {r \in S : /\ ~IsNa(Cell(r, "duration")) /\ ~IsNa(Cell(r, "viewtime"))
               /\ Cell(r, "duration").v > 0}

\* the mean view fraction of the rows in S that have one
MeanFraction(S) ==
    LET rows == Ascending(WithFraction(S))
    IN  IF rows = <<>> THEN NaN
        ELSE Mean([n \in 1..Len(rows) |->
                     Frac(Cell(rows[n], "viewtime").v, Cell(rows[n], "duration").v)])

\* C18: a duration or view-time cell that is no time does not make the run
\* fail: the run raises only for a missing column; the cell's value and its
\* row's view fraction are missing, the means of view fractions per media
\* and per student are taken over the other rows, and the row's user still
\* counts among the media's viewers when a user column was found.
UnparseableCellTolerated ==
    /\ bt_pc = "raised" => ColumnsMissing(found_cols)
    /\ bt_pc = "done" =>
        /\ \A r \in 1..Len(df.rows) : \A role \in {"duration", "viewtime"} :
              RawCell(r, role) = NoTime =>
                  IsNa(Cell(r, role)) /\ IsNa(true_view_frac[r])
        /\ \A g \in 1..Len(echo_summary) :
              /\ echo_summary[g].avg = MeanFraction(RowsOfMedia(g))
              /\ found_cols.user.status = "found" =>
                    echo_summary[g].viewers =
                        Cardinality({Cell(r, "user") : r \in RowsOfMedia(g)} \ {NaN})
        /\ \A g \in 1..Len(student_table) :
              student_table[g].avg_when_watched = MeanFraction(RowsOfStudent(g))

\* a media with a watched row and a row whose duration is no time: the
\* average is the watched row's, and both users are viewers
UnparseableRowCounted ==
    /\ bt_pc = "done"
    /\ found_cols.user.status = "found"
    /\ \E g \in 1..Len(echo_summary) :
        /\ \E r \in RowsOfMedia(g) : RawCell(r, "duration") = NoTime
        /\ echo_summary[g].avg = Frac(1, 2)
        /\ echo_summary[g].viewers = 2

(***************************************************************************)
(* C19: the order of resolution (SpecTies)                                 *)
(***************************************************************************)
\* pair a is considered before pair b: score descending, then media index
\* ascending, then curriculum index ascending
StatedBefore(a, b) ==
    \/ ScoreGt(GmScore(a.e, a.c), GmScore(b.e, b.c))
    \/ /\ ScoreGe(GmScore(a.e, a.c), GmScore(b.e, b.c))
       /\ (a.e < b.e \/ (a.e = b.e /\ a.c < b.c))

\* the pairs in S in that order
RECURSIVE StatedOrder(_)
StatedOrder(S) ==
    IF S = {} THEN <<>>
    ELSE LET first == CHOOSE a \in S : \A b \in S \ {a} : StatedBefore(a, b)
         IN  <<first>> \o StatedOrder(S \ {first})

\* C19: the retained candidate pairs are considered in order of score
\* descending, ties by media index ascending and then curriculum index
\* ascending; a pair is accepted exactly when neither of its sides was
\* consumed by a pair accepted before it, and acceptance consumes both.
GreedyOrderAsStated ==
    gm_pc = "done" =>
        gm_out = GreedySelect(
                    StatedOrder(Range(Candidates(gm_ekeys, gm_ckeys,
                                                 gm_knobs[1], gm_knobs[2], gm_knobs[3]))),
                    {}, {})

\* the first row of the curriculum list that belongs to the module of row
\* g of the per-module table
FirstSeen(g) ==
    Least({n \in 1..Len(canvas_order_df.rows) :
              /\ AsStr(canvas_order_df.rows[n]["module"]) = module_sorted[g].module
              /\ canvas_order_df.rows[n]["module_position"] =
                     Num(module_sorted[g].module_position)})

\* C20: the per-module table lists the modules by module_position
\* ascending, modules at the same position in the order in which the
\* curriculum list first shows them, and has no position column.
ModulesByPositionThenFirstSeen ==
    bt_pc = "done" =>
        /\ \A g \in 1..Len(module_table) :
              /\ "module_position" \notin DOMAIN module_table[g]
              /\ module_table[g].module = module_sorted[g].module
        /\ \A g, h \in 1..Len(module_sorted) :
              g < h =>
                  \/ module_sorted[g].module_position < module_sorted[h].module_position
                  \/ /\ module_sorted[g].module_position = module_sorted[h].module_position
                     /\ FirstSeen(g) < FirstSeen(h)

(***************************************************************************)
(* C21: the per-student table's ids (SpecMetrics)                          *)
(***************************************************************************)
\* 'S' and k in four decimal digits, for k < 10000
FourDigitId(k) ==
    <<"S", DigitSeq[((k \div 1000) % 10) + 1], DigitSeq[((k \div 100) % 10) + 1],
      DigitSeq[((k \div 10) % 10) + 1], DigitSeq[(k % 10) + 1]>>

\* the user values of the input, as text
RawUsers == {AsStr(Cell(r, "user")) : r \in {x \in 1..Len(parsed.rows) : ~IsNa(Cell(x, "user"))}}

CurriculumUnchanged == [][canvas_order_df' = canvas_order_df]_vars

\* a run that filled a curriculum row from a fuzzy match
FuzzyFilledRun ==
    /\ bt_pc = "done"
    /\ canvas_order_df.present
    /\ canvas_order_df.rows # <<>>
    /\ fuzzy.pairs # <<>>
    /\ m1_filled # m1_exact

(***************************************************************************)
(* C23-C25: the list _greedy_match returns (SpecTies, SpecGreedy)          *)
(***************************************************************************)
\* C23: in the list _greedy_match returns, every echo index occurs in at
\* most one triple and every canvas index occurs in at most one triple.
GreedyOutputOneToOne ==
    gm_pc = "done" =>
        \A n, m \in 1..Len(gm_out) :
            n # m => gm_out[n].e # gm_out[m].e /\ gm_out[n].c # gm_out[m].c

\* two echo keys scored 100 against the same canvas key and against
\* another one, and each got its own
ContendedKeysShared ==
    /\ gm_pc = "done"
    /\ Len(gm_ekeys) = 2
    /\ gm_ekeys[1] = gm_ekeys[2]
    /\ Len(gm_ckeys) = 2
    /\ \A j \in 1..2 : gm_ckeys[j] = gm_ekeys[1]
    /\ Len(gm_out) = 2

\* the canvas keys that score higher than j for echo key i
GmHigher(i, j) == {m \in 1..Len(gm_ckeys) : ScoreGt(GmScore(i, m), GmScore(i, j))}

\* some pair of the top_k candidate set reaches the threshold
GmTopKReaches ==
    \E p \in GmPairs :
        /\ Cardinality(GmAhead(p[1], p[2])) < gm_knobs[3]
        /\ ScoreAtLeast(GmScore(p[1], p[2]), gm_knobs[1])

\* C24: every returned pair (i, j, score) has score >= threshold with j
\* among the top_k highest-scoring canvas keys of echo key i, or no pair of
\* the top_k candidate set reaches the threshold, score >= fallback_min and
\* no canvas key scores higher for i.  With threshold >= fallback_min, no
\* returned pair scores below fallback_min, and none scores below the
\* threshold when some candidate reaches it.
ReturnedPairsQualify ==
    gm_pc = "done" /\ gm_knobs[1] >= gm_knobs[2] =>
        \A n \in 1..Len(gm_out) :
            LET i == gm_out[n].e
                j == gm_out[n].c
                score == gm_out[n].score
            IN  /\ \/ /\ score >= gm_knobs[1]
                      /\ Cardinality(GmHigher(i, j)) < gm_knobs[3]
                   \/ /\ ~GmTopKReaches
                      /\ score >= gm_knobs[2]
                      /\ GmHigher(i, j) = {}
                /\ score >= gm_knobs[2]
                /\ GmTopKReaches => score >= gm_knobs[1]

\* a pair below the threshold was returned as its echo key's best choice
FallbackPairReturned ==
    /\ gm_pc = "done"
    /\ gm_knobs = <<THRESHOLD, FALLBACK_MIN, TOP_K>>
    /\ Len(gm_ckeys) >= 2
    /\ \E n \in 1..Len(gm_out) :
        /\ gm_out[n].score < THRESHOLD
        /\ gm_out[n].score >= FALLBACK_MIN
        /\ GmHigher(gm_out[n].e, gm_out[n].c) = {}

\* the candidate pairs retained before the selection
GmRetained ==
    Range(Candidates(gm_ekeys, gm_ckeys, gm_knobs[1], gm_knobs[2], gm_knobs[3]))

GmReturned == Range(gm_out)

\* C25: every retained candidate (i, j, s) that is not returned shares its
\* echo index or its canvas index with a returned pair of score >= s, so no
\* retained candidate has both sides unconsumed at the end; and only
\* retained candidates are returned.
GreedyDominant ==
    gm_pc = "done" =>
        /\ GmReturned \subseteq GmRetained
        /\ \A t \in GmRetained \ GmReturned :
              \E u \in GmReturned :
                  /\ u.e = t.e \/ u.c = t.c
                  /\ u.score >= t.score

\* a returned pair of score 100 kept out a retained pair of score 90 on the
\* same canvas key
LowerPairKeptOut ==
    /\ gm_pc = "done"
    /\ \E t \in GmRetained \ GmReturned :
        /\ t.score = 90
        /\ \E u \in GmReturned : u.c = t.c /\ u.e # t.e /\ u.score = 100

(***************************************************************************)
(* C26: what a fuzzy pair writes (Spec)                                    *)
(***************************************************************************)
\* C26: for every pair (i, j) the fuzzy pass returns, the media title,
\* duration, viewers and average written to the curriculum row of j are
\* those of media i, also when two media have the same normalized key.
FuzzyFillFromPairedMedia ==
    bt_pc = "done" =>
        \A p \in 1..Len(fuzzy.pairs) :
            LET row == m1_filled[fuzzy.unmatched_idx[fuzzy.pairs[p].c]]
                media == echo_summary[fuzzy.pairs[p].e]
            IN  /\ row.title = Text(media.title)
                /\ row.duration = media.duration
                /\ row.viewers = Num(media.viewers)
                /\ row.avg = media.avg

(***************************************************************************)
(* C27: one column per role (SpecRoles)                                    *)
(***************************************************************************)
\* C27: whenever build_echo_tables resolves its columns, the columns found
\* for media title, duration, total view time, average view time and user
\* are pairwise distinct.
RolesDistinct ==
    bt_pc = "done" =>
        \A r1, r2 \in {"media", "duration", "viewtime", "avgview", "user"} :
            (r1 # r2 /\ found_cols[r1].status = "found" /\ found_cols[r2].status = "found")
                => found_cols[r1].col # found_cols[r2].col

(***************************************************************************)
(* C28: pagination (SpecGetAll)                                            *)
(***************************************************************************)
\* the items of the first m pages, in page order
RECURSIVE ItemsUpTo(_)
ItemsUpTo(m) ==
    IF m = 0 THEN <<>>
    ELSE ItemsUpTo(m - 1)
         \o (IF ga_pages[m].data.kind = "list" THEN ga_pages[m].data.value
             ELSE <<ga_pages[m].data.value>>)

\* requests for the first m pages in order, the params on the first only
RequestsUpTo(m) ==
    [k \in 1..m |-> <<PageUrl(k), IF k = 1 THEN ParamsOrEmpty(ga_params) ELSE None>>]

\* the pages that answer with an HTTP error status
ErrorPages == {k \in 1..Len(ga_pages) : ga_pages[k].status >= 400}

GetAllSafe ==
    /\ ga_pc = "returned" =>
          /\ ErrorPages = {}
          /\ ga_ret = <<ItemsUpTo(Len(ga_pages))>>
          /\ ga_log = RequestsUpTo(Len(ga_pages))
    /\ ga_pc = "raised" =>
          /\ ErrorPages # {}
          /\ ga_log = RequestsUpTo(Least(ErrorPages))
          /\ ga_ret = <<>>
    /\ ga_pc = "loop" => ga_ret = <<>>

\* C28: _get_all requests the pages in the order of their rel="next"
\* links, with the query parameters on the first request only, and returns
\* the items of all pages in page order once a response has no rel="next"
\* link; an HTTP error status on a page ends the call with an exception
\* and no list; on every finite chain of pages the call ends.
GetAllPaginates == [](GetAllSafe) /\ <>(ga_pc \in {"returned", "raised"})

\* three pages with Canvas's headers were read with params given
ThreePagesCollected ==
    /\ ga_pc = "returned"
    /\ Len(ga_pages) = 3
    /\ \A k \in 1..3 : ga_pages[k].link = CanvasLink(k, 3)
    /\ ga_params = "per_page=100"
    /\ Len(ga_log) = 3
    /\ Len(ga_ret[1]) >= 3

\* the user, at step 2, pressed Continue with an Echo export in the
\* uploader that build_echo_tables processes with the stored curriculum
ContinuedWithGoodEcho ==
    /\ wz_step = 2
    /\ wz_input'.click = "continue"
    /\ wz_input'.file # <<>>
    /\ ~BuildEchoRaises(wz_input'.file[1], wz_state["canvas"])

\* C29: the wizard's step moves from 2 to 3 only in a run that stores the
\* returned Echo result under "echo", and from 3 to the dashboard only in a
\* run that stores the returned gradebook result under "grades"; and when
\* the user at step 2 continues with an Echo CSV that build_echo_tables
\* itself processes without error, the run ends at step 3.
WizardAdvances ==
    [][ /\ (wz_step = 2 /\ wz_step' = 3) =>
              /\ "echo" \in DOMAIN wz_state'
              /\ wz_state'["echo"] = EchoTablesOf(wz_input'.file[1], wz_state["canvas"])
        /\ (wz_step = 3 /\ wz_step' = 4) => "grades" \in DOMAIN wz_state'
        /\ ContinuedWithGoodEcho => wz_step' = 3 ]_vars

\* the module_position of the first row of the curriculum with the name
FirstPosition(canvas, name) ==
    canvas.rows[CHOOSE n \in 1..Len(canvas.rows) :
                    /\ AsStr(canvas.rows[n]["module"]) = name
                    /\ \A m \in 1..(n-1) : AsStr(canvas.rows[m]["module"]) # name]["module_position"].v

\* the module names of the curriculum
CurriculumNames(canvas) == {AsStr(canvas.rows[n]["module"]) : n \in 1..Len(canvas.rows)}

\* rows is some rearrangement of the given rows, each row as given
RowsPermuted(rows, given) ==
    /\ Len(rows) = Len(given)
    /\ \E f \in [1..Len(rows) -> 1..Len(rows)] :
          /\ \A i, j \in 1..Len(rows) : i # j => f[i] # f[j]
          /\ \A i \in 1..Len(rows) : rows[i] = given[f[i]]

\* the rows whose module the curriculum lists are in order of that
\* module's position at its first occurrence in the curriculum
InFirstPositionOrder(rows, canvas) ==
    \A i, j \in 1..Len(rows) :
        (/\ i < j
         /\ AsStr(rows[i]["Module"]) \in CurriculumNames(canvas)
         /\ AsStr(rows[j]["Module"]) \in CurriculumNames(canvas))
        => FirstPosition(canvas, AsStr(rows[i]["Module"])) <= FirstPosition(canvas, AsStr(rows[j]["Module"]))

\* the call sorted the table: neither table is empty
SortApplied ==
    /\ so_pc = "done"
    /\ so_df.present /\ so_df.rows # <<>> /\ "Module" \in so_df.columns
    /\ so_canvas.present /\ so_canvas.rows # <<>>

\* C30: sort_by_canvas_order returns the rows of the table it is given,
\* rearranged, every row with its module name as given, also a module name
\* the curriculum does not list, in order of the module_position of the
\* first occurrence of each module name in the curriculum.
SortPermutesInCourseOrder ==
    SortApplied =>
        /\ RowsPermuted(so_out.rows, so_df.rows)
        /\ InFirstPositionOrder(so_out.rows, so_canvas)

====
